---- MODULE Spec2Model ----
(***************************************************************************)
(* State-machine model of the Cartes flashcard viewer: the session engine  *)
(* (deck, sequential index, shuffle history), the navigation queue, the    *)
(* revision state machine and the persistent store they read and write.    *)
(*                                                                         *)
(* The JavaScript `state` object is the variable `state`, localStorage is  *)
(* the variable `storage`, and the callbacks the event loop still has to   *)
(* run (showCurrent continuations, swipeCard timers, swipe-gesture         *)
(* continuations, a loadChapter awaiting its manifest) together with the   *)
(* completion modal's visibility are the variable `pending`.               *)
(*                                                                         *)
(* Every JavaScript function is an operator from a world record            *)
(* w = [state, ls, ev] to the world after the call; a call to              *)
(* Math.random / shuffleArray takes its outcome from the argument rnd, a   *)
(* permutation of the card numbers that the action draws with \E.          *)
(* Array indices are 0-based as in the source: At(s, i) reads s[i].        *)
(***************************************************************************)
EXTENDS Integers, Sequences, FiniteSets, TLC

VARIABLES state, storage, pending, server, assets, persisted

vars == <<state, storage, pending, server, assets, persisted>>

(***************************************************************************)
(* Bounds of the model and constants of the program.                       *)
(***************************************************************************)
TotalCards == 2
MaxShow == 2
MaxTimers == 1
MaxGestures == 1
MaxNavQueue == 2
MaxRound == 3
MaxCalls == 2
MaxClock == 2
MaxFetches == 3
MaxTasks == 3
MaxChapters == 2
MaxLoads == 2
MAX_HISTORY == 5

Null == 0
ScenarioDeck == <<1, 2, 3>>

\* The outcomes of the random number generator that matter for n cards: the
\* orders in which a shuffle can leave them.
Orders(n) == {p \in [1..n -> 1..n] : \A i, j \in 1..n : p[i] = p[j] => i = j}

TIMER_STATES == <<"all", "green", "yellow", "orange">>
DIFFICULTY_STATES == <<"all", "green", "orange", "red">>

(***************************************************************************)
(* Array and Set helpers (JavaScript built-ins).                           *)
(***************************************************************************)
At(s, i) == s[i + 1]

Range(s) == {s[i] : i \in 1..Len(s)}

Includes(s, x) == \E i \in 1..Len(s) : s[i] = x

IndexOf(s, x) ==
  IF Includes(s, x)
  THEN (CHOOSE i \in 1..Len(s) : s[i] = x /\ \A j \in 1..(i - 1) : s[j] # x) - 1
  ELSE -1

FilterIn(s, S) == SelectSeq(s, LAMBDA x : x \in S)

FilterOut(s, S) == SelectSeq(s, LAMBDA x : x \notin S)

SliceLast(s, n) == IF Len(s) <= n THEN s ELSE SubSeq(s, Len(s) - n + 1, Len(s))

Min(a, b) == IF a <= b THEN a ELSE b

RECURSIVE InsertSorted(_, _)
InsertSorted(s, x) ==
  IF s = <<>> THEN <<x>>
  ELSE IF x < Head(s) THEN <<x>> \o s
  ELSE <<Head(s)>> \o InsertSorted(Tail(s), x)

RECURSIVE SortNumeric(_)
SortNumeric(s) == IF s = <<>> THEN <<>> ELSE InsertSorted(SortNumeric(Tail(s)), Head(s))

RECURSIVE RangeSeq(_, _)
RangeSeq(a, b) == IF a > b THEN <<>> ELSE <<a>> \o RangeSeq(a + 1, b)

\* Set.add on an insertion-ordered Set kept as a duplicate-free sequence.
SetAdd(s, x) == IF Includes(s, x) THEN s ELSE Append(s, x)

\* Set.delete on an insertion-ordered Set.
SetDelete(s, x) == SelectSeq(s, LAMBDA y : y # x)

RECURSIVE ArrayFrom(_)
\* Array.from / Object.keys of a collection whose order the caller does not keep.
ArrayFrom(S) == IF S = {} THEN <<>> ELSE LET x == CHOOSE y \in S : TRUE IN <<x>> \o ArrayFrom(S \ {x})

\* shuffleArray(Array.from(pool)): the outcome rnd orders the pool.
shuffleArray(pool, rnd) == SelectSeq(rnd, LAMBDA x : x \in pool)

\* list[Math.floor(Math.random() * list.length)] for a non-empty list.
RandomMember(list, rnd) == Head(SelectSeq(rnd, LAMBDA x : Includes(list, x)))

(***************************************************************************)
(* The chapter's manifest as the server holds it.                          *)
(***************************************************************************)
NoManifest ==
  [present |-> FALSE, total_cards |-> 0, hasPerCard |-> FALSE,
   per_card |-> <<>>, hasByBorder |-> FALSE, cards_by_border |-> <<>>,
   hasByTimer |-> FALSE, cards_by_timer |-> <<>>]

PerCardManifest(total) ==
  [present |-> TRUE, total_cards |-> total, hasPerCard |-> TRUE,
   per_card |-> [n \in 1..total |->
                   [border |-> IF n = 1 THEN "green" ELSE IF n = 2 THEN "orange" ELSE "red",
                    timer |-> IF n = 1 THEN "green" ELSE "yellow"]],
   hasByBorder |-> FALSE, cards_by_border |-> <<>>,
   hasByTimer |-> FALSE, cards_by_timer |-> <<>>]

\* A manifest without per_card: the categories come as the lists
\* cards_by_border and cards_by_timer; the last card is tagged purple.
ListsManifest(total) ==
  [present |-> TRUE, total_cards |-> total, hasPerCard |-> FALSE, per_card |-> <<>>,
   hasByBorder |-> TRUE,
   cards_by_border |-> [c \in {"green", "purple"} |->
                          IF c = "green" THEN {1} ELSE {total}],
   hasByTimer |-> TRUE,
   cards_by_timer |-> [c \in {"green", "yellow"} |->
                         IF c = "green" THEN {1} ELSE 2..total]]

\* A manifest whose per_card entries carry the image sizes only (no border, no
\* timer), with the categories in the lists as in ListsManifest.
SizesAndListsManifest(total) ==
  [ListsManifest(total) EXCEPT
     !.hasPerCard = TRUE,
     !.per_card = [n \in 1..total |-> [border |-> "undefined", timer |-> "undefined"]]]

\* A per_card manifest whose last card is tagged purple.
PurplePerCardManifest(total) ==
  [PerCardManifest(total) EXCEPT !.per_card[total].border = "purple"]

\* The manifest shapes a chapter can come with, the missing one included.
ManifestShapes(total) ==
  {NoManifest, PerCardManifest(total), ListsManifest(total),
   SizesAndListsManifest(total), PurplePerCardManifest(total)}

(***************************************************************************)
(* Initial state: the `state` literal with an empty localStorage.          *)
(***************************************************************************)
NoProgress == [present |-> FALSE, round |-> 1, incorrect |-> <<>>, seen |-> {}, mastered |-> {}]

InitState ==
  [total |-> 0, deck |-> <<>>, history |-> <<>>, historyIndex |-> -1,
   currentIndex |-> 0, unvisited |-> {}, shuffle |-> FALSE,
   showFavouritesOnly |-> FALSE, chapter |-> Null, isTransitioning |-> FALSE,
   manifest |-> NoManifest, filterTimer |-> "all", filterDifficulty |-> "all",
   shuffleQueue |-> <<>>, navQueue |-> <<>>,
   lastCardBeforeFavourites |-> Null, wasShuffleBeforeFavourites |-> FALSE,
   revisionMode |-> FALSE, revisionIncorrect |-> <<>>, revisionSeen |-> {},
   revisionRound |-> 1, revisionMastered |-> {}]

\* The chapters of the selector, and the values state.chapter takes.
Chapters == 1..MaxChapters
ChapterKeys == {Null} \cup Chapters

\* fc_favourites and fc_last_card hold one entry per key
\* fc_favourites_ch<chapter> / fc_last_card_<chapter>.
InitStorage ==
  [fc_shuffle |-> FALSE, fc_revision_mode |-> FALSE,
   fc_favourites |-> [chapter \in ChapterKeys |-> {}],
   fc_history |-> <<>>, fc_revision |-> NoProgress,
   fc_last_card |-> [chapter \in ChapterKeys |-> Null]]

InitPending ==
  [showTasks |-> <<>>, swipeTimers |-> <<>>, gestureTasks |-> <<>>,
   loading |-> FALSE, completeModal |-> FALSE, loads |-> <<>>]

World == [state |-> state, ls |-> storage, ev |-> pending]

(***************************************************************************)
(* The asset resolver's module state (part_000 88-95) for one card side,   *)
(* (basePath, 'front', n).  A URL is the record of its parts: extension,   *)
(* ?v= token, cb= token and probe= token (0: the parameter is absent).     *)
(***************************************************************************)
IMAGE_FORMATS == <<"webp", "png">>

\* The base paths of two chapters, and what a manifest.json fetch can
\* deliver: Null (response not ok, network or JSON error) or one of two
\* versions of the document.
BasePaths == {"flashcards/ch1_cartes", "flashcards/ch2_cartes"}
ManifestData == {Null, 1, 2}

NoURL == [ext |-> "", v |-> "", cb |-> 0, probe |-> 0]
NoResult == [ok |-> FALSE, src |-> NoURL, ext |-> ""]

\* imageCache, loadingImages and imageFormatCache start empty; images holds
\* the Image objects whose load is under way, calls the invocations of
\* loadCardImage, clock the value of Date.now(), succeeded the URLs whose
\* load has fired onload at some time and succeededCaching those among them
\* whose load was started with caching enabled.  front and version are what
\* the chapter's manifest registered (formats.front, asset version).
\* manifestCache and manifestFetches are the manifest memo and the in-flight
\* map; fetches holds the fetch() requests under way, manifestCalls the
\* invocations of fetchManifest, fetched the base paths for which a fetch has
\* delivered a manifest at some time.
\* preloading and imagesLoaded are state.preloading and state.imagesLoaded;
\* preloadTasks holds the startLoad closures that queuePreload has scheduled
\* and that have not run their finally yet.
InitAssets(front, version) ==
  [imageCache |-> {}, loadingImages |-> {}, imageFormatCache |-> "",
   images |-> <<>>, calls |-> <<>>, clock |-> 1, succeeded |-> {},
   succeededCaching |-> {}, front |-> front, version |-> version,
   manifestCache |-> [basePath \in BasePaths |-> Null],
   manifestFetches |-> {}, fetches |-> <<>>, manifestCalls |-> <<>>,
   fetched |-> {},
   preloading |-> {}, imagesLoaded |-> {}, preloadTasks |-> <<>>]

(***************************************************************************)
(* The items restored from localStorage and the text found under each key: *)
(* nothing, text that JSON.parse (parseInt for the last card) rejects, or   *)
(* text written by the program.  results holds what each restoring         *)
(* operation has come to: "pending" before it has run, then "threw",       *)
(* "nosaved" (the value used when nothing is stored) or "restored".        *)
(* writeFails tells that localStorage.setItem throws (quota exceeded,      *)
(* storage disabled).                                                      *)
(***************************************************************************)
Items ==
  {"favourites", "history", "revision", "shuffle", "revisionMode", "lastCard"}
RawTexts == {"absent", "malformed", "valid"}

InitRestore ==
  [raw |-> [item \in Items |-> "absent"],
   results |-> [item \in Items |-> "pending"],
   writeFails |-> FALSE]

Init ==
  /\ state = InitState
  /\ storage = InitStorage
  /\ pending = InitPending
  /\ server = PerCardManifest(TotalCards)
  /\ assets = InitAssets("webp", "")
  /\ persisted = InitRestore

(***************************************************************************)
(* state.js and storage.js                                                 *)
(***************************************************************************)
getCurrentCard(w) ==
  LET s == w.state IN
  IF s.shuffle
  THEN IF Len(s.history) = 0 THEN Null
       ELSE IF s.historyIndex < 0 \/ s.historyIndex >= Len(s.history) THEN Null
       ELSE At(s.history, s.historyIndex)
  ELSE IF Len(s.deck) = 0 THEN Null
       ELSE IF s.currentIndex < 0 \/ s.currentIndex >= Len(s.deck) THEN Null
       ELSE At(s.deck, s.currentIndex)

getCurrentRevisionDeck(w) == w.state.deck

loadFavourites(w) == w.ls.fc_favourites[w.state.chapter]

\* toggleFavourite writing the new set under the key of every chapter.
toggleFavouriteEveryChapter(w, cardNo) ==
  LET favourites == loadFavourites(w) IN
  [w EXCEPT !.ls.fc_favourites = [chapter \in ChapterKeys |->
     IF cardNo \in favourites THEN favourites \ {cardNo} ELSE favourites \cup {cardNo}]]

toggleFavourite(w, cardNo) ==
  LET favourites == loadFavourites(w) IN
  [w EXCEPT !.ls.fc_favourites[w.state.chapter] =
     IF cardNo \in favourites THEN favourites \ {cardNo} ELSE favourites \cup {cardNo}]

saveHistory(w) ==
  IF ~w.state.shuffle \/ w.state.chapter = Null THEN w
  ELSE [w EXCEPT !.ls.fc_history = SliceLast(w.state.history, MAX_HISTORY)]

loadHistory(w) ==
  IF w.state.chapter = Null THEN <<>>
  ELSE SliceLast(FilterIn(w.ls.fc_history, Range(w.state.deck)), MAX_HISTORY)

\* clearHistory leaving the stored history in place.
clearHistoryKeeping(w) == w

clearHistory(w) ==
  IF w.state.chapter = Null THEN w ELSE [w EXCEPT !.ls.fc_history = <<>>]

saveRevisionProgress(w) ==
  IF w.state.chapter = Null \/ ~w.state.revisionMode THEN w
  ELSE [w EXCEPT !.ls.fc_revision =
          [present |-> TRUE, round |-> w.state.revisionRound,
           incorrect |-> w.state.revisionIncorrect, seen |-> w.state.revisionSeen,
           mastered |-> w.state.revisionMastered]]

loadRevisionProgress(w) ==
  IF w.state.chapter = Null THEN NoProgress ELSE w.ls.fc_revision

clearRevisionProgress(w) ==
  IF w.state.chapter = Null THEN w ELSE [w EXCEPT !.ls.fc_revision = NoProgress]

getStoredCard(w) ==
  IF w.state.chapter = Null THEN Null ELSE w.ls.fc_last_card[w.state.chapter]

storeCurrentCard(w, cardNo) ==
  IF w.state.chapter = Null \/ cardNo = Null THEN w
  ELSE [w EXCEPT !.ls.fc_last_card[w.state.chapter] = cardNo]

(***************************************************************************)
(* updates.js: showCurrent starts a transition; its continuation           *)
(* (swapImages, finishTransition) is a pending task holding the card n.    *)
(***************************************************************************)
showCurrent(w) ==
  IF w.state.isTransitioning THEN w
  ELSE LET n == getCurrentCard(w) IN
       IF n = Null THEN w
       ELSE [w EXCEPT !.state.isTransitioning = TRUE,
                      !.ev.showTasks = Append(@, n)]

(***************************************************************************)
(* navigation.js                                                           *)
(***************************************************************************)
resetFastNavState(w) == [w EXCEPT !.state.navQueue = <<>>]

enqueueNavAction(w, type) ==
  IF w.state.revisionMode THEN w
  ELSE [w EXCEPT !.state.navQueue = Append(@, type)]

ensureShuffleQueue(w, currentCard, rnd) ==
  IF ~w.state.shuffle THEN w
  ELSE IF Len(w.state.shuffleQueue) # 0 THEN w
  ELSE LET unvisited ==
             IF w.state.unvisited = {}
             THEN Range(w.state.deck) \ (IF currentCard # Null THEN {currentCard} ELSE {})
             ELSE w.state.unvisited
       IN [w EXCEPT !.state.unvisited = unvisited,
                    !.state.shuffleQueue = shuffleArray(unvisited, rnd)]

\* rebuildDeck, lines 544-628: the new deck as a function of the manifest, the
\* total, the filters and the favourites.
BuildDeck(manifest, total, tf, df, favouritesOnly, favourites) ==
  LET hasPerCard == manifest.present /\ manifest.hasPerCard
      numbers == IF hasPerCard THEN SortNumeric(ArrayFrom(DOMAIN manifest.per_card))
                 ELSE <<>>
      deck0 == IF Len(numbers) = 0 THEN RangeSeq(1, total)
               ELSE IF total # 0 /\ Len(numbers) < total
               THEN numbers \o FilterOut(RangeSeq(1, total), Range(numbers))
               ELSE numbers
      purple == IF hasPerCard
                THEN {n \in DOMAIN manifest.per_card : manifest.per_card[n].border = "purple"}
                ELSE IF manifest.hasByBorder /\ "purple" \in DOMAIN manifest.cards_by_border
                THEN manifest.cards_by_border["purple"]
                ELSE {}
      deck1 == IF purple # {} THEN FilterOut(deck0, purple) ELSE deck0
      allowedTimer == IF manifest.hasByTimer /\ tf \in DOMAIN manifest.cards_by_timer
                      THEN manifest.cards_by_timer[tf]
                      ELSE IF hasPerCard
                      THEN {n \in DOMAIN manifest.per_card : manifest.per_card[n].timer = tf}
                      ELSE {}
      deck2 == IF tf # "all"
               THEN (IF allowedTimer # {} THEN FilterIn(deck1, allowedTimer) ELSE <<>>)
               ELSE deck1
      allowedBorder == IF manifest.hasByBorder /\ df \in DOMAIN manifest.cards_by_border
                       THEN manifest.cards_by_border[df]
                       ELSE IF hasPerCard
                       THEN {n \in DOMAIN manifest.per_card : manifest.per_card[n].border = df}
                       ELSE {}
      deck3 == IF df # "all"
               THEN (IF allowedBorder # {} THEN FilterIn(deck2, allowedBorder) ELSE <<>>)
               ELSE deck2
      deck4 == IF manifest.present THEN deck3 ELSE deck0
      deck5 == IF favouritesOnly THEN FilterIn(deck4, favourites) ELSE deck4
  IN SortNumeric(deck5)

\* rebuildDeck, lines 630-660: the session position on the new deck.
applyNewDeck(w, newDeck, keepCardNo, rnd) ==
  LET s == w.state
      keepIt == keepCardNo # Null /\ Includes(newDeck, keepCardNo)
      filtered == FilterIn(s.history, Range(newDeck))
      history == IF keepIt
                 THEN (IF ~Includes(s.history, keepCardNo) THEN <<keepCardNo>> ELSE s.history)
                 ELSE IF Len(filtered) = 0 /\ Len(newDeck) > 0
                 THEN <<RandomMember(newDeck, rnd)>>
                 ELSE filtered
      historyIndex == IF keepIt THEN IndexOf(history, keepCardNo)
                      ELSE IF Len(filtered) = 0 /\ Len(newDeck) > 0 THEN 0
                      ELSE Min(s.historyIndex, Len(filtered) - 1)
  IN IF s.shuffle
     THEN [w EXCEPT !.state.deck = newDeck,
                    !.state.history = history,
                    !.state.historyIndex = historyIndex,
                    !.state.unvisited = Range(newDeck) \ Range(history),
                    !.state.shuffleQueue = <<>>]
     ELSE [w EXCEPT !.state.deck = newDeck,
                    !.state.currentIndex = IF keepIt THEN IndexOf(newDeck, keepCardNo) ELSE 0]

\* rebuildDeck that flips the favourites view each time it runs.
rebuildDeckFlippingFavourites(w, keepCardNo, rnd) ==
  [applyNewDeck(w,
                BuildDeck(w.state.manifest, w.state.total, w.state.filterTimer,
                          w.state.filterDifficulty, w.state.showFavouritesOnly,
                          loadFavourites(w)),
                keepCardNo, rnd)
     EXCEPT !.state.showFavouritesOnly = ~@]

rebuildDeck(w, keepCardNo, rnd) ==
  applyNewDeck(w,
               BuildDeck(w.state.manifest, w.state.total, w.state.filterTimer,
                         w.state.filterDifficulty, w.state.showFavouritesOnly,
                         loadFavourites(w)),
               keepCardNo, rnd)

\* if (!state.deck.length) return; showCurrent(): the tail of the handlers
\* that rebuild the deck.
showUnlessEmpty(w) == IF Len(w.state.deck) = 0 THEN w ELSE showCurrent(w)

\* if (!state.shuffle) { state.shuffle = true; localStorage fc_shuffle = 'true' }
\* Revision entered without switching shuffle on.
forceShuffleSkipped(w) == w

forceShuffle(w) ==
  IF ~w.state.shuffle THEN [w EXCEPT !.state.shuffle = TRUE, !.ls.fc_shuffle = TRUE] ELSE w

deferNavAction(w, queued, type) ==
  IF ~w.state.revisionMode /\ ~queued THEN enqueueNavAction(w, type) ELSE w

\* pushHistory without the eviction of the oldest entry.
pushHistoryNoEviction(w, cardNo) ==
  [w EXCEPT !.state.history = Append(@, cardNo),
            !.state.historyIndex = @ + 1,
            !.state.unvisited = @ \ {cardNo}]

\* pushHistory that leaves the pushed card in the unvisited set.
pushHistoryKeepUnvisited(w, cardNo) ==
  LET pushed == Append(w.state.history, cardNo) IN
  IF Len(pushed) > MAX_HISTORY
  THEN [w EXCEPT !.state.history = Tail(pushed), !.state.historyIndex = MAX_HISTORY - 1]
  ELSE [w EXCEPT !.state.history = pushed, !.state.historyIndex = @ + 1]

\* history.push(cardNo) with the eviction at MAX_HISTORY and unvisited.delete,
\* as nextCard, nextRevisionCard and the swipe gesture each do it.
pushHistory(w, cardNo) ==
  LET pushed == Append(w.state.history, cardNo) IN
  IF Len(pushed) > MAX_HISTORY
  THEN [w EXCEPT !.state.history = Tail(pushed),
                 !.state.historyIndex = MAX_HISTORY - 1,
                 !.state.unvisited = @ \ {cardNo}]
  ELSE [w EXCEPT !.state.history = pushed,
                 !.state.historyIndex = @ + 1,
                 !.state.unvisited = @ \ {cardNo}]

\* nextCard that stops at the last card of a sequential deck instead of
\* wrapping to the first.
nextCardNoWrap(w, queued, rnd) ==
  LET s == w.state IN
  IF Len(s.deck) = 0 THEN w
  ELSE IF s.isTransitioning THEN deferNavAction(w, queued, "next")
  ELSE IF s.shuffle
  THEN IF s.historyIndex < Len(s.history) - 1
       THEN showCurrent(saveHistory([w EXCEPT !.state.historyIndex = @ + 1]))
       ELSE LET w1 == ensureShuffleQueue(w, getCurrentCard(w), rnd)
                q == w1.state.shuffleQueue
                nextCardNo == IF Len(q) > 0 THEN q[Len(q)] ELSE At(s.deck, 0)
                w2 == IF Len(q) > 0
                      THEN [w1 EXCEPT !.state.shuffleQueue = SubSeq(q, 1, Len(q) - 1)]
                      ELSE w1
                w3 == pushHistory(w2, nextCardNo)
                w4 == ensureShuffleQueue(w3, nextCardNo, rnd)
            IN showCurrent(saveHistory(w4))
  ELSE showCurrent([w EXCEPT !.state.currentIndex = Min(@ + 1, Len(s.deck) - 1)])

nextCard(w, queued, rnd) ==
  LET s == w.state IN
  IF Len(s.deck) = 0 THEN w
  ELSE IF s.isTransitioning THEN deferNavAction(w, queued, "next")
  ELSE IF s.shuffle
  THEN IF s.historyIndex < Len(s.history) - 1
       THEN showCurrent(saveHistory([w EXCEPT !.state.historyIndex = @ + 1]))
       ELSE LET w1 == ensureShuffleQueue(w, getCurrentCard(w), rnd)
                q == w1.state.shuffleQueue
                nextCardNo == IF Len(q) > 0 THEN q[Len(q)] ELSE At(s.deck, 0)
                w2 == IF Len(q) > 0
                      THEN [w1 EXCEPT !.state.shuffleQueue = SubSeq(q, 1, Len(q) - 1)]
                      ELSE w1
                w3 == pushHistory(w2, nextCardNo)
                w4 == ensureShuffleQueue(w3, nextCardNo, rnd)
            IN showCurrent(saveHistory(w4))
  ELSE showCurrent([w EXCEPT !.state.currentIndex = (@ + 1) % Len(s.deck)])

\* prevCard dropping the entries of history it steps back over.
prevCardForgetting(w, queued) ==
  LET s == w.state
      canNavigate == IF s.shuffle THEN s.historyIndex > 0 ELSE TRUE
  IN IF Len(s.deck) = 0 THEN w
     ELSE IF ~canNavigate THEN w
     ELSE IF s.isTransitioning THEN deferNavAction(w, queued, "prev")
     ELSE IF s.shuffle
     THEN showCurrent([w EXCEPT !.state.historyIndex = @ - 1,
                                !.state.history = SubSeq(@, 1, s.historyIndex)])
     ELSE showCurrent([w EXCEPT !.state.currentIndex = (@ - 1 + Len(s.deck)) % Len(s.deck)])

prevCard(w, queued) ==
  LET s == w.state
      canNavigate == IF s.shuffle THEN s.historyIndex > 0 ELSE TRUE
  IN IF Len(s.deck) = 0 THEN w
     ELSE IF ~canNavigate THEN w
     ELSE IF s.isTransitioning THEN deferNavAction(w, queued, "prev")
     ELSE IF s.shuffle
     THEN showCurrent([w EXCEPT !.state.historyIndex = @ - 1])
     ELSE showCurrent([w EXCEPT !.state.currentIndex = (@ - 1 + Len(s.deck)) % Len(s.deck)])

\* processNavQueue replaying the newest request (navQueue.pop()) first.
processNavQueueNewestFirst(w, rnd) ==
  LET s == w.state IN
  IF s.revisionMode THEN [w EXCEPT !.state.navQueue = <<>>]
  ELSE IF Len(s.navQueue) = 0 THEN w
  ELSE IF s.isTransitioning THEN w
  ELSE LET action == s.navQueue[Len(s.navQueue)]
           w1 == [w EXCEPT !.state.navQueue = SubSeq(@, 1, Len(@) - 1)]
       IN IF action = "next" THEN nextCard(w1, TRUE, rnd)
          ELSE IF action = "prev" THEN prevCard(w1, TRUE)
          ELSE w1

processNavQueue(w, rnd) ==
  LET s == w.state IN
  IF s.revisionMode THEN [w EXCEPT !.state.navQueue = <<>>]
  ELSE IF Len(s.navQueue) = 0 THEN w
  ELSE IF s.isTransitioning THEN w
  ELSE LET action == Head(s.navQueue)
           w1 == [w EXCEPT !.state.navQueue = Tail(@)]
       IN IF action = "next" THEN nextCard(w1, TRUE, rnd)
          ELSE IF action = "prev" THEN prevCard(w1, TRUE)
          ELSE w1

\* showCurrent's finishTransition for the card n it displayed.
finishTransition(w, n, rnd) ==
  processNavQueue(storeCurrentCard([w EXCEPT !.state.isTransitioning = FALSE], n), rnd)

toggleShuffle(w, rnd) ==
  LET s == w.state
      currentCard == getCurrentCard(w)
      on == [w EXCEPT !.state.shuffle = TRUE, !.ls.fc_shuffle = TRUE]
      savedHistory == loadHistory(on)
      restore == Len(savedHistory) > 0 /\ savedHistory[Len(savedHistory)] = currentCard
      history == IF restore THEN savedHistory
                 ELSE IF currentCard # Null THEN <<currentCard>> ELSE <<>>
      on1 == saveHistory([on EXCEPT
                 !.state.history = history,
                 !.state.historyIndex = IF restore THEN Len(savedHistory) - 1
                                        ELSE IF currentCard # Null THEN 0 ELSE -1,
                 !.state.unvisited = Range(s.deck) \ Range(history),
                 !.state.shuffleQueue = <<>>])
      off == clearHistory([w EXCEPT !.state.shuffle = FALSE, !.ls.fc_shuffle = FALSE])
      off1 == [off EXCEPT
                 !.state.currentIndex =
                    IF currentCard = Null THEN @
                    ELSE IF IndexOf(s.deck, currentCard) = -1 THEN 0
                    ELSE IndexOf(s.deck, currentCard),
                 !.state.shuffleQueue = <<>>]
      w1 == IF ~s.shuffle THEN on1 ELSE off1
  IN IF s.showFavouritesOnly /\ ~s.shuffle THEN w
     ELSE showCurrent(ensureShuffleQueue(w1, getCurrentCard(w1), rnd))

\* Leaving the favourites view without switching shuffle back on.
favouritesShuffleNotRestoring(w, rnd) ==
  IF w.state.showFavouritesOnly
  THEN (IF w.state.shuffle THEN toggleShuffle(w, rnd) ELSE w)
  ELSE w

\* toggleFavouritesOnly, lines 807-819: the shuffle mode on entering and on
\* leaving the favourites view.
favouritesShuffle(w, rnd) ==
  IF w.state.showFavouritesOnly
  THEN (IF w.state.shuffle THEN toggleShuffle(w, rnd) ELSE w)
  ELSE (IF w.state.wasShuffleBeforeFavourites THEN forceShuffle(w) ELSE w)

\* toggleFavouritesOnly, lines 807-834: keep, rebuildDeck(keep), showCurrent.
favouritesRebuild(w, rnd) ==
  showUnlessEmpty(rebuildDeck(w,
                              IF w.state.showFavouritesOnly THEN getCurrentCard(w)
                              ELSE w.state.lastCardBeforeFavourites,
                              rnd))

toggleFavouritesOnly(w, rnd) ==
  LET s == w.state
      entering == ~s.showFavouritesOnly
      w1 == IF entering
            THEN [w EXCEPT !.state.lastCardBeforeFavourites = getCurrentCard(w),
                           !.state.wasShuffleBeforeFavourites = s.shuffle]
            ELSE w
      w2 == [w1 EXCEPT !.state.showFavouritesOnly = ~@]
  IN IF s.isTransitioning THEN w
     ELSE favouritesRebuild(favouritesShuffle(w2, rnd), rnd)

cycleTimer(w, rnd) ==
  LET nextIndex == (IndexOf(TIMER_STATES, w.state.filterTimer) + 1) % Len(TIMER_STATES)
      w1 == [w EXCEPT !.state.filterTimer = At(TIMER_STATES, nextIndex)]
  IN IF w.state.revisionMode THEN w
     ELSE showUnlessEmpty(rebuildDeck(w1, getCurrentCard(w1), rnd))

cycleDifficulty(w, rnd) ==
  LET nextIndex == (IndexOf(DIFFICULTY_STATES, w.state.filterDifficulty) + 1)
                      % Len(DIFFICULTY_STATES)
      w1 == [w EXCEPT !.state.filterDifficulty = At(DIFFICULTY_STATES, nextIndex)]
  IN IF w.state.revisionMode THEN w
     ELSE showUnlessEmpty(rebuildDeck(w1, getCurrentCard(w1), rnd))

(***************************************************************************)
(* revision-mode.js                                                        *)
(***************************************************************************)
resetRevisionProgress(w) ==
  clearRevisionProgress([w EXCEPT !.state.revisionRound = 1,
                                  !.state.revisionIncorrect = <<>>,
                                  !.state.revisionSeen = {},
                                  !.state.revisionMastered = {}])

resetShuffleForRevision(w, preferredCard, rnd) ==
  LET currentDeck == getCurrentRevisionDeck(w)
      firstCard == IF preferredCard = Null \/ preferredCard \notin Range(currentDeck)
                   THEN RandomMember(currentDeck, rnd)
                   ELSE preferredCard
  IN IF Len(currentDeck) = 0
     THEN [w EXCEPT !.state.unvisited = {}, !.state.history = <<>>,
                    !.state.historyIndex = -1, !.state.shuffleQueue = <<>>]
     ELSE saveHistory([w EXCEPT
            !.state.history = <<firstCard>>,
            !.state.historyIndex = 0,
            !.state.unvisited = Range(currentDeck) \ {firstCard},
            !.state.shuffleQueue = shuffleArray(Range(currentDeck) \ {firstCard}, rnd)])

checkRoundComplete(w) ==
  Cardinality(w.state.revisionSeen) >= Len(getCurrentRevisionDeck(w))

showRevisionComplete(w) == [w EXCEPT !.ev.completeModal = TRUE]

\* startNewRevisionRound that keeps the deck of the round before.
startNewRevisionRoundSameDeck(w, rnd) ==
  LET w1 == [w EXCEPT !.state.revisionRound = @ + 1, !.state.revisionSeen = {}]
  IN showCurrent(resetShuffleForRevision(saveRevisionProgress(w1), Null, rnd))

startNewRevisionRound(w, rnd) ==
  LET w1 == [w EXCEPT !.state.revisionRound = @ + 1,
                      !.state.revisionSeen = {},
                      !.state.deck = IF Len(w.state.revisionIncorrect) > 0
                                     THEN w.state.revisionIncorrect ELSE @]
  IN showCurrent(resetShuffleForRevision(saveRevisionProgress(w1), Null, rnd))

handleRoundComplete(w, rnd) ==
  IF Len(w.state.revisionIncorrect) = 0
  THEN showRevisionComplete(w)
  ELSE startNewRevisionRound(w, rnd)

\* nextRevisionCard drawing among all the cards of the deck, the seen ones
\* included.
nextRevisionCardAnyCard(w, rnd) ==
  IF Len(w.state.deck) = 0 THEN w
  ELSE IF Len(FilterOut(w.state.deck, w.state.revisionSeen)) = 0
  THEN handleRoundComplete(w, rnd)
  ELSE showCurrent(saveHistory(pushHistory(w, RandomMember(w.state.deck, rnd))))

nextRevisionCard(w, rnd) ==
  LET unseenCards == FilterOut(w.state.deck, w.state.revisionSeen) IN
  IF Len(w.state.deck) = 0 THEN w
  ELSE IF Len(unseenCards) = 0 THEN handleRoundComplete(w, rnd)
  ELSE showCurrent(saveHistory(pushHistory(w, RandomMember(unseenCards, rnd))))

\* swipeCard: the lock is taken at once, the 300 ms timer runs the callback.
swipeCard(w, direction, callback) ==
  [w EXCEPT !.state.isTransitioning = TRUE,
            !.ev.swipeTimers = Append(@, [direction |-> direction, callback |-> callback])]

\* The OK mark without revisionIncorrect.delete.
setCardOKKeepIncorrect(w, card) ==
  [w EXCEPT !.state.revisionMastered = @ \cup {card},
            !.state.revisionSeen = @ \cup {card}]

\* The three Set updates of an OK mark (markCardOK, swipe action 'ok').
setCardOK(w, card) ==
  [w EXCEPT !.state.revisionIncorrect = SetDelete(@, card),
            !.state.revisionMastered = @ \cup {card},
            !.state.revisionSeen = @ \cup {card}]

\* The not-OK mark without revisionMastered.delete.
setCardPasOKKeepMastered(w, card) ==
  [w EXCEPT !.state.revisionIncorrect = SetAdd(@, card),
            !.state.revisionSeen = @ \cup {card}]

\* The three Set updates of a not-OK mark (markCardPasOK, swipe action 'review').
setCardPasOK(w, card) ==
  [w EXCEPT !.state.revisionIncorrect = SetAdd(@, card),
            !.state.revisionSeen = @ \cup {card},
            !.state.revisionMastered = @ \ {card}]

markCardOK(w) ==
  LET currentCard == getCurrentCard(w)
      w1 == saveRevisionProgress(setCardOK(w, currentCard))
  IN IF currentCard = Null THEN w
     ELSE IF checkRoundComplete(w1) THEN swipeCard(w1, "right", "handleRoundComplete")
     ELSE swipeCard(w1, "right", "nextRevisionCard")

markCardPasOK(w) ==
  LET currentCard == getCurrentCard(w)
      w1 == saveRevisionProgress(setCardPasOK(w, currentCard))
  IN IF currentCard = Null THEN w
     ELSE IF checkRoundComplete(w1) THEN swipeCard(w1, "left", "handleRoundComplete")
     ELSE swipeCard(w1, "left", "nextRevisionCard")

\* The setTimeout callback of swipeCard.
swipeTimeout(w, callback, rnd) ==
  LET w1 == [w EXCEPT !.state.isTransitioning = FALSE] IN
  IF callback = "handleRoundComplete" THEN handleRoundComplete(w1, rnd)
  ELSE nextRevisionCard(w1, rnd)

\* restartRevisionSession, lines 608-621: from the rebuilt deck on.
restartOnDeck(w, rnd) ==
  IF Len(w.state.deck) = 0 THEN w
  ELSE showCurrent(resetShuffleForRevision(forceShuffle(w), Null, rnd))

restartRevisionSession(w, rnd) ==
  IF ~w.state.revisionMode THEN w
  ELSE restartOnDeck(rebuildDeck(resetRevisionProgress(w), Null, rnd), rnd)

\* Entering revision mode without switching the favourites view off.
enterRevisionModeKeepingFavourites(w, previousCard, rnd) ==
  LET progress == loadRevisionProgress(w)
      restored == [w EXCEPT
                     !.state.revisionRound = progress.round,
                     !.state.revisionIncorrect = progress.incorrect,
                     !.state.revisionSeen = progress.seen,
                     !.state.revisionMastered = progress.mastered,
                     !.state.deck = IF progress.round > 1 /\ Len(progress.incorrect) > 0
                                    THEN progress.incorrect ELSE @]
      w2 == IF progress.present THEN restored ELSE resetRevisionProgress(w)
  IN resetShuffleForRevision(forceShuffle(w2), previousCard, rnd)

\* toggleRevisionMode, lines 635-658: entering revision mode, with the stored
\* progress restored or reset.
enterRevisionMode(w, previousCard, rnd) ==
  LET progress == loadRevisionProgress(w)
      restored == [w EXCEPT
                     !.state.revisionRound = progress.round,
                     !.state.revisionIncorrect = progress.incorrect,
                     !.state.revisionSeen = progress.seen,
                     !.state.revisionMastered = progress.mastered,
                     !.state.deck = IF progress.round > 1 /\ Len(progress.incorrect) > 0
                                    THEN progress.incorrect ELSE @]
      w2 == IF progress.present THEN restored ELSE resetRevisionProgress(w)
  IN [resetShuffleForRevision(forceShuffle(w2), previousCard, rnd)
        EXCEPT !.state.showFavouritesOnly = FALSE]

toggleRevisionMode(w, rnd) ==
  LET previousCard == getCurrentCard(w)
      w1 == resetFastNavState([w EXCEPT !.state.revisionMode = ~@,
                                        !.ls.fc_revision_mode = ~w.state.revisionMode])
  IN showCurrent(IF w1.state.revisionMode
                 THEN enterRevisionMode(w1, previousCard, rnd)
                 ELSE rebuildDeck(w1, getCurrentCard(w1), rnd))

(***************************************************************************)
(* swipe.js: completeSwipe + the synchronous part of handleSwipeTransition *)
(* and the continuation that runs once the exit animation has been awaited.*)
(***************************************************************************)
handleSwipeTransition(w, action, rnd) ==
  LET currentCard == getCurrentCard(w)
      locked == [w EXCEPT !.state.isTransitioning = TRUE]
      w1 == IF currentCard = Null THEN locked
            ELSE saveRevisionProgress(IF action = "ok" THEN setCardOK(locked, currentCard)
                                      ELSE setCardPasOK(locked, currentCard))
      unseenCards == FilterOut(w1.state.deck, w1.state.revisionSeen)
      task == IF checkRoundComplete(w1) \/ Len(unseenCards) = 0
              THEN [action |-> action, kind |-> "handleRoundComplete", card |-> Null]
              ELSE [action |-> action, kind |-> "next",
                    card |-> RandomMember(unseenCards, rnd)]
  IN [w1 EXCEPT !.ev.gestureTasks = Append(@, task)]

swipeTransitionResume(w, task, rnd) ==
  IF task.kind = "handleRoundComplete"
  THEN handleRoundComplete([w EXCEPT !.state.isTransitioning = FALSE], rnd)
  ELSE [storeCurrentCard(saveHistory(pushHistory(w, task.card)), task.card)
          EXCEPT !.state.isTransitioning = FALSE]

(***************************************************************************)
(* chapters.js: loadChapter up to its await of the manifest, and from the  *)
(* manifest's arrival to the end.                                          *)
(***************************************************************************)
loadChapterBegin(w, n) ==
  LET w1 == resetFastNavState([w EXCEPT
              !.state.chapter = n, !.state.total = 0, !.state.deck = <<>>,
              !.state.history = <<>>, !.state.historyIndex = -1,
              !.state.currentIndex = 0, !.state.unvisited = {},
              !.state.shuffleQueue = <<>>])
      progress == loadRevisionProgress(w1)
      w2 == IF ~w1.state.revisionMode THEN w1
            ELSE IF progress.present
            THEN [w1 EXCEPT !.state.revisionRound = progress.round,
                            !.state.revisionIncorrect = progress.incorrect,
                            !.state.revisionSeen = progress.seen,
                            !.state.revisionMastered = progress.mastered]
            ELSE resetRevisionProgress(w1)
  IN [w2 EXCEPT !.state.manifest = NoManifest, !.ev.loading = TRUE]

applyManifestTotal(manifest) ==
  LET keys == IF manifest.present /\ manifest.hasPerCard THEN DOMAIN manifest.per_card ELSE {}
      total == IF manifest.present THEN manifest.total_cards ELSE 0
  IN IF \E k \in keys : k > total THEN CHOOSE k \in keys : \A j \in keys : j <= k ELSE total

\* discoverPairs: the binary search over the image files finds every card.
discoverPairs == TotalCards

\* loadChapter, lines 289-292: in a later revision round the deck is the
\* incorrect cards.
restrictToIncorrect(w) ==
  IF w.state.revisionMode /\ w.state.revisionRound > 1 /\ Len(w.state.revisionIncorrect) > 0
  THEN [w EXCEPT !.state.deck = FilterIn(@, Range(w.state.revisionIncorrect))]
  ELSE w

\* loadChapter, lines 294-335: the session position on the deck, and the
\* first card shown.
loadChapterShow(w, storedCard, rnd) ==
  LET deck == w.state.deck
      savedHistory == loadHistory(w)
      keepStored == storedCard # Null /\ Includes(deck, storedCard)
      history == IF Len(savedHistory) > 0 THEN savedHistory
                 ELSE IF keepStored THEN <<storedCard>>
                 ELSE <<RandomMember(deck, rnd)>>
      w4 == IF w.state.shuffle
            THEN [w EXCEPT !.state.history = history,
                           !.state.historyIndex = Len(history) - 1,
                           !.state.unvisited = Range(deck) \ Range(history),
                           !.state.shuffleQueue = <<>>]
            ELSE [w EXCEPT !.state.currentIndex =
                              IF keepStored THEN IndexOf(deck, storedCard) ELSE 0]
  IN IF Len(deck) = 0 THEN w
     ELSE showCurrent(ensureShuffleQueue(w4, Null, rnd))

loadChapterResume(w, manifest, rnd) ==
  LET total == IF applyManifestTotal(manifest) = 0 THEN discoverPairs
               ELSE applyManifestTotal(manifest)
      w1 == [w EXCEPT !.state.manifest = manifest, !.state.total = total, !.ev.loading = FALSE]
  IN IF total = 0 THEN w1
     ELSE loadChapterShow(restrictToIncorrect(rebuildDeck(w1, getStoredCard(w1), rnd)),
                          getStoredCard(w1), rnd)

(***************************************************************************)
(* Actions: the user's inputs (events.js, main.js) and the event loop's    *)
(* pending callbacks.                                                      *)
(***************************************************************************)
\* The random outcomes over the cards of the chapter on the server.
Rnd ==
  Orders(IF applyManifestTotal(server) = 0 THEN discoverPairs
         ELSE applyManifestTotal(server))

Bounded(t) ==
  /\ Len(t.ev.showTasks) <= MaxShow
  /\ Len(t.ev.swipeTimers) <= MaxTimers
  /\ Len(t.ev.gestureTasks) <= MaxGestures
  /\ Len(t.state.navQueue) <= MaxNavQueue
  /\ t.state.revisionRound <= MaxRound

Apply(t) ==
  /\ Bounded(t)
  /\ state' = t.state
  /\ storage' = t.ls
  /\ pending' = t.ev
  /\ UNCHANGED <<server, assets, persisted>>

RemoveAt(s, i) == SubSeq(s, 1, i - 1) \o SubSeq(s, i + 1, Len(s))

\* ArrowRight / #nextBtn in lecture mode.
NextCard ==
  /\ ~state.revisionMode
  /\ \E rnd \in Rnd : Apply(nextCard(World, FALSE, rnd))

\* ArrowLeft / #prevBtn in lecture mode.
PrevCard ==
  /\ ~state.revisionMode
  /\ Apply(prevCard(World, FALSE))

\* 'r' / #randomToggle, enabled outside revision and favourites-only mode.
ToggleShuffle ==
  /\ ~state.revisionMode
  /\ ~state.showFavouritesOnly
  /\ \E rnd \in Rnd : Apply(toggleShuffle(World, rnd))

\* 'f' / #favouritesToggle in lecture mode.
ToggleFavouritesOnly ==
  /\ ~state.revisionMode
  /\ \E rnd \in Rnd : Apply(toggleFavouritesOnly(World, rnd))

\* 'b' / #bookmarkBtn in lecture mode.
Bookmark ==
  /\ ~state.revisionMode
  /\ getCurrentCard(World) # Null
  /\ Apply(toggleFavourite(World, getCurrentCard(World)))

CycleTimer ==
  \E rnd \in Rnd : Apply(cycleTimer(World, rnd))

CycleDifficulty ==
  \E rnd \in Rnd : Apply(cycleDifficulty(World, rnd))

\* A showCurrent in flight has its images and runs finishTransition.
ShowCurrentFinish ==
  \E i \in 1..Len(pending.showTasks), rnd \in Rnd :
    Apply(finishTransition([World EXCEPT !.ev.showTasks = RemoveAt(@, i)],
                           pending.showTasks[i], rnd))

\* #modeToggle.
ToggleRevisionMode ==
  \E rnd \in Rnd : Apply(toggleRevisionMode(World, rnd))

\* ArrowRight / #okBtn in revision mode.
MarkCardOK ==
  /\ state.revisionMode
  /\ Apply(markCardOK(World))

\* ArrowLeft / #pasOkBtn in revision mode.
MarkCardPasOK ==
  /\ state.revisionMode
  /\ Apply(markCardPasOK(World))

\* The oldest swipeCard timer fires.
SwipeTimeout ==
  /\ Len(pending.swipeTimers) > 0
  /\ \E rnd \in Rnd :
       Apply(swipeTimeout([World EXCEPT !.ev.swipeTimers = Tail(@)],
                          Head(pending.swipeTimers).callback, rnd))

\* A touch swipe past the threshold: onTouchStart's guards, then completeSwipe.
SwipeGesture ==
  /\ state.revisionMode
  /\ ~state.isTransitioning
  /\ \E action \in {"ok", "review"}, rnd \in Rnd :
       Apply(handleSwipeTransition(World, action, rnd))

SwipeGestureResume ==
  /\ Len(pending.gestureTasks) > 0
  /\ \E rnd \in Rnd :
       Apply(swipeTransitionResume([World EXCEPT !.ev.gestureTasks = Tail(@)],
                                   Head(pending.gestureTasks), rnd))

\* #restartRevisionInlineBtn (shown in revision mode), confirmed.
RestartInline ==
  /\ state.revisionMode
  /\ \E rnd \in Rnd : Apply(restartRevisionSession(World, rnd))

\* #restartRevisionBtn of the completion modal.
RestartFromModal ==
  /\ pending.completeModal
  /\ \E rnd \in Rnd :
       Apply([restartRevisionSession(World, rnd) EXCEPT !.ev.completeModal = FALSE])

\* #backToLectureBtn of the completion modal.
BackToLecture ==
  /\ pending.completeModal
  /\ \E rnd \in Rnd :
       Apply(toggleRevisionMode([World EXCEPT !.ev.completeModal = FALSE], rnd))

\* init() or the chapter selector starts loadChapter.
LoadChapterBegin ==
  /\ ~pending.loading
  /\ Apply(loadChapterBegin(World, 1))

\* main.js init(): the first loadChapter of the page.
InitialLoad ==
  /\ state.chapter = Null
  /\ LoadChapterBegin

\* The manifest fetch of the loadChapter in flight resolves.
LoadChapterResume ==
  /\ pending.loading
  /\ \E rnd \in Rnd : Apply(loadChapterResume(World, server, rnd))

Next ==
  \/ NextCard
  \/ PrevCard
  \/ ToggleShuffle
  \/ ToggleFavouritesOnly
  \/ Bookmark
  \/ CycleTimer
  \/ CycleDifficulty
  \/ ShowCurrentFinish
  \/ ToggleRevisionMode
  \/ MarkCardOK
  \/ MarkCardPasOK
  \/ SwipeTimeout
  \/ SwipeGesture
  \/ SwipeGestureResume
  \/ RestartInline
  \/ RestartFromModal
  \/ BackToLecture
  \/ LoadChapterBegin
  \/ LoadChapterResume

Spec == Init /\ [][Next]_vars

(***************************************************************************)
(* Lecture sessions: navigation, shuffle, the timer filter, chapter loads  *)
(* and the mode toggle, without marks.                                     *)
(***************************************************************************)
NextLecture ==
  \/ NextCard
  \/ PrevCard
  \/ ToggleShuffle
  \/ CycleTimer
  \/ ShowCurrentFinish
  \/ ToggleRevisionMode
  \/ LoadChapterBegin
  \/ LoadChapterResume

SpecLecture == Init /\ [][NextLecture]_vars

(***************************************************************************)
(* Revision sessions: the page loads its chapter, and once it has, the     *)
(* user toggles the mode, marks by key, button and swipe, and uses the     *)
(* restart and completion-modal buttons, while the timers and              *)
(* continuations those leave run.                                          *)
(***************************************************************************)
Loaded == state.chapter # Null /\ ~pending.loading

NextRevision ==
  \/ InitialLoad
  \/ LoadChapterResume
  \/ ShowCurrentFinish
  \/ SwipeTimeout
  \/ SwipeGestureResume
  \/ Loaded /\ ToggleRevisionMode
  \/ Loaded /\ MarkCardOK
  \/ Loaded /\ MarkCardPasOK
  \/ Loaded /\ SwipeGesture
  \/ Loaded /\ RestartInline
  \/ Loaded /\ RestartFromModal
  \/ Loaded /\ BackToLecture

SpecRevision == Init /\ [][NextRevision]_vars

(***************************************************************************)
(* The three-card scenario: the page loads a chapter of the cards 1, 2, 3, *)
(* the user may move about in lecture mode, enters revision mode once,     *)
(* and in round 1 marks each card as it is displayed: card 2 not-OK, the   *)
(* cards 1 and 3 OK.                                                       *)
(***************************************************************************)
InitScenario ==
  /\ state = InitState
  /\ storage = InitStorage
  /\ pending = InitPending
  /\ server = PerCardManifest(Len(ScenarioDeck))
  /\ assets = InitAssets("webp", "")
  /\ persisted = InitRestore

EnterRevision ==
  /\ ~state.revisionMode
  /\ ToggleRevisionMode

ScenarioMark ==
  /\ state.revisionMode
  /\ state.revisionRound = 1
  /\ ~state.isTransitioning
  /\ getCurrentCard(World) # Null
  /\ getCurrentCard(World) \notin state.revisionSeen
  /\ IF getCurrentCard(World) = 2 THEN MarkCardPasOK ELSE MarkCardOK

NextScenario ==
  \/ InitialLoad
  \/ LoadChapterResume
  \/ ShowCurrentFinish
  \/ SwipeTimeout
  \/ Loaded /\ NextCard
  \/ Loaded /\ PrevCard
  \/ Loaded /\ ToggleShuffle
  \/ Loaded /\ EnterRevision
  \/ Loaded /\ ScenarioMark

SpecScenario == InitScenario /\ [][NextScenario]_vars

(***************************************************************************)
(* Revision sessions of a patient user on the three-card chapter: every    *)
(* input waits until no transition, timer or continuation is pending.      *)
(***************************************************************************)
Settled ==
  /\ Loaded
  /\ ~state.isTransitioning
  /\ pending.showTasks = <<>>
  /\ pending.swipeTimers = <<>>
  /\ pending.gestureTasks = <<>>

NextPatient ==
  \/ InitialLoad
  \/ LoadChapterResume
  \/ ShowCurrentFinish
  \/ SwipeTimeout
  \/ SwipeGestureResume
  \/ Settled /\ ToggleRevisionMode
  \/ Settled /\ MarkCardOK
  \/ Settled /\ MarkCardPasOK
  \/ Settled /\ SwipeGesture
  \/ Settled /\ RestartInline
  \/ Settled /\ RestartFromModal
  \/ Settled /\ BackToLecture

SpecPatient == InitScenario /\ [][NextPatient]_vars

(***************************************************************************)
(* Lecture sessions with favourites: once the chapter has loaded the user  *)
(* bookmarks cards, switches the favourites view and the shuffle mode on   *)
(* and off, and moves through the deck.                                    *)
(***************************************************************************)
NextFavourites ==
  \/ InitialLoad
  \/ LoadChapterResume
  \/ ShowCurrentFinish
  \/ Loaded /\ Bookmark
  \/ Loaded /\ ToggleFavouritesOnly
  \/ Loaded /\ ToggleShuffle
  \/ Loaded /\ NextCard
  \/ Loaded /\ PrevCard

SpecFavourites == Init /\ [][NextFavourites]_vars

(***************************************************************************)
(* Lecture sessions on a chapter that comes with any of the manifest       *)
(* shapes: the user cycles the two filters, bookmarks, switches the        *)
(* favourites view and moves through the deck.                             *)
(***************************************************************************)
InitManifests ==
  /\ state = InitState
  /\ storage = InitStorage
  /\ pending = InitPending
  /\ server \in ManifestShapes(TotalCards)
  /\ assets = InitAssets("webp", "")
  /\ persisted = InitRestore

NextManifests ==
  \/ InitialLoad
  \/ LoadChapterResume
  \/ ShowCurrentFinish
  \/ Loaded /\ CycleTimer
  \/ Loaded /\ CycleDifficulty
  \/ Loaded /\ Bookmark
  \/ Loaded /\ ToggleFavouritesOnly
  \/ Loaded /\ NextCard

SpecManifests == InitManifests /\ [][NextManifests]_vars

LastOf(history) == history[Len(history)]

\* A step in which nextCard, in lecture shuffle mode and at the end of the
\* history, draws a new card: the deck stays, the history grows by one entry
\* (the oldest one evicted at capacity).
IsShuffleDraw ==
  /\ ~state.revisionMode /\ ~state'.revisionMode
  /\ state.shuffle /\ state'.shuffle
  /\ ~pending.loading
  /\ Len(state.deck) > 0 /\ state'.deck = state.deck
  /\ state.historyIndex = Len(state.history) - 1
  /\ Len(state'.history) > 0
  /\ state'.historyIndex = Len(state'.history) - 1
  /\ state'.history = SliceLast(Append(state.history, LastOf(state'.history)), MAX_HISTORY)
  /\ <<state'.history, state'.historyIndex>> # <<state.history, state.historyIndex>>

Position(st) == <<st.currentIndex, st.history, st.historyIndex>>

Enqueued(w, type) == [w EXCEPT !.state.navQueue = Append(@, type)]

\* prevCard's canNavigate.
CanRetreat == ~state.shuffle \/ state.historyIndex > 0

\* What a call made during a transition does, in every reachable state.
CallsDuringTransition ==
  /\ state.revisionMode => state.navQueue = <<>>
  /\ state.isTransitioning /\ state.revisionMode =>
        /\ \A rnd \in Rnd : nextCard(World, FALSE, rnd) = World
        /\ prevCard(World, FALSE) = World
  /\ state.isTransitioning /\ ~state.revisionMode /\ Len(state.deck) > 0 =>
        /\ \A rnd \in Rnd : nextCard(World, FALSE, rnd) = Enqueued(World, "next")
        /\ prevCard(World, FALSE) = IF CanRetreat THEN Enqueued(World, "prev") ELSE World

\* The position after the request `type` has been replayed from the queue.
ReplayedAs(type) ==
  IF Len(state.deck) = 0 THEN Position(state') = Position(state)
  ELSE IF type = "next"
  THEN IF ~state.shuffle
       THEN state'.currentIndex = (state.currentIndex + 1) % Len(state.deck)
       ELSE IF state.historyIndex < Len(state.history) - 1
       THEN state'.history = state.history /\ state'.historyIndex = state.historyIndex + 1
       ELSE /\ state'.historyIndex = Len(state'.history) - 1
            /\ state'.history =
                 SliceLast(Append(state.history, LastOf(state'.history)), MAX_HISTORY)
  ELSE IF ~state.shuffle
       THEN state'.currentIndex = (state.currentIndex - 1 + Len(state.deck)) % Len(state.deck)
       ELSE /\ state'.history = state.history
            /\ state'.historyIndex =
                 IF state.historyIndex > 0 THEN state.historyIndex - 1 ELSE state.historyIndex

\* A lecture-mode step, other than the start of a chapter load, that changes
\* the queue either appends one request and leaves the position alone, or
\* removes the oldest request and moves the position as that request asks.
QueueStep ==
  (/\ ~state.revisionMode /\ ~state'.revisionMode
   /\ pending'.loading = pending.loading
   /\ state'.navQueue # state.navQueue)
  => \/ /\ state.isTransitioning
        /\ \E type \in {"next", "prev"} : state'.navQueue = Append(state.navQueue, type)
        /\ Position(state') = Position(state)
     \/ /\ Len(state.navQueue) > 0
        /\ state'.navQueue = Tail(state.navQueue)
        /\ ReplayedAs(Head(state.navQueue))

SwipeTimeoutStep ==
  /\ Len(pending.swipeTimers) > 0
  /\ pending'.swipeTimers = Tail(pending.swipeTimers)

\* A swipe gesture's continuation runs in this step.
GestureResumeStep ==
  /\ Len(pending.gestureTasks) > 0
  /\ pending'.gestureTasks = Tail(pending.gestureTasks)

\* markCardOK or markCardPasOK runs in this step and leaves its timer.
KeyMarkStep ==
  /\ state.revisionMode
  /\ Len(pending'.swipeTimers) = Len(pending.swipeTimers) + 1

\* A swipe gesture marks the current card in this step.
GestureMarkStep ==
  /\ state.revisionMode
  /\ Len(pending'.gestureTasks) = Len(pending.gestureTasks) + 1

\* The round-completion handling a mark of this step has scheduled, if any.
ScheduledCompletion ==
  \/ KeyMarkStep /\ LastOf(pending'.swipeTimers).callback = "handleRoundComplete"
  \/ GestureMarkStep /\ LastOf(pending'.gestureTasks).kind = "handleRoundComplete"

\* handleRoundComplete runs in this step, from a timer or a gesture.
CompletionRuns ==
  \/ SwipeTimeoutStep /\ Head(pending.swipeTimers).callback = "handleRoundComplete"
  \/ GestureResumeStep /\ Head(pending.gestureTasks).kind = "handleRoundComplete"

\* Every card of the round's deck has been marked in this round.
RoundCovered(st) == Len(st.deck) > 0 /\ Range(st.deck) \subseteq st.revisionSeen

\* C3: the round counter only moves, by a timer or a gesture continuation in
\* revision mode, when a round has been completed with incorrect cards: every
\* card of the deck marked and the incorrect set non-empty; it then moves by
\* exactly 1 and seen is reset. One completed round gives one increment.
C3_OneIncrementPerRound ==
  [][(/\ state.revisionMode /\ state'.revisionMode
      /\ SwipeTimeoutStep \/ GestureResumeStep
      /\ state'.revisionRound # state.revisionRound)
     => /\ RoundCovered(state)
        /\ Len(state.revisionIncorrect) > 0
        /\ state'.revisionRound = state.revisionRound + 1
        /\ state'.revisionSeen = {}]_vars

\* C4: round-completion handling is scheduled by a mark exactly when the mark
\* leaves every card of the round's deck marked, and whenever the handling
\* runs every card of the round's deck has been marked in this round.
C4_CompletionIffCovered ==
  [][/\ (state.revisionMode /\ (KeyMarkStep \/ GestureMarkStep) /\ Len(state.deck) > 0)
        => (ScheduledCompletion <=> RoundCovered(state'))
     /\ (state.revisionMode /\ CompletionRuns /\ Len(state.deck) > 0)
        => RoundCovered(state)]_vars

\* C5: in revision mode, on a loaded chapter, every card of revisionSeen is a
\* card of the round's deck.
C5_SeenWithinDeck ==
  (state.revisionMode /\ ~pending.loading /\ state.chapter # Null)
    => state.revisionSeen \subseteq Range(state.deck)

\* C6: no card is both in revisionIncorrect and in revisionMastered, in the
\* session state and in the persisted progress.
C6_IncorrectMasteredDisjoint ==
  /\ Range(state.revisionIncorrect) \cap state.revisionMastered = {}
  /\ Range(storage.fc_revision.incorrect) \cap storage.fc_revision.mastered = {}

\* A later round with a card still incorrect and the other one mastered.
C6_Witness ==
  /\ state.revisionMode
  /\ state.revisionRound > 1
  /\ Len(state.revisionIncorrect) > 0
  /\ state.revisionMastered # {}
  /\ storage.fc_revision.present

\* C7: a mark decides alone where the current card is afterwards. After an
\* OK mark (key, button or swipe) the card is mastered and not incorrect,
\* after a not-OK mark it is incorrect and not mastered, whatever the marks
\* before it were; in both cases it is seen.
C7_LastMarkWins ==
  [][LET card == getCurrentCard(World)
         ok == \/ KeyMarkStep /\ LastOf(pending'.swipeTimers).direction = "right"
               \/ GestureMarkStep /\ LastOf(pending'.gestureTasks).action = "ok"
     IN ((KeyMarkStep \/ GestureMarkStep) /\ card # Null) =>
          /\ card \in state'.revisionSeen
          /\ ok => /\ card \in state'.revisionMastered
                    /\ ~Includes(state'.revisionIncorrect, card)
          /\ ~ok => /\ Includes(state'.revisionIncorrect, card)
                     /\ card \notin state'.revisionMastered]_vars

\* The current card was swiped OK and then, with the swipe's continuation and
\* so the round still pending, marked not-OK by key: it is incorrect.
C7_Witness ==
  /\ state.revisionMode
  /\ Len(pending.gestureTasks) = 1 /\ pending.gestureTasks[1].action = "ok"
  /\ Len(pending.swipeTimers) = 1 /\ pending.swipeTimers[1].direction = "left"
  /\ pending.showTasks = <<>>
  /\ getCurrentCard(World) # Null
  /\ Includes(state.revisionIncorrect, getCurrentCard(World))
  /\ getCurrentCard(World) \notin state.revisionMastered
  /\ getCurrentCard(World) \in state.revisionSeen

\* C8: while the completion modal stays up and revision mode is not left, the
\* round counter does not grow: no mark starts a new round.
C8_CompletionTerminal ==
  [][(/\ pending.completeModal /\ pending'.completeModal
      /\ state.revisionMode /\ state'.revisionMode)
     => state'.revisionRound <= state.revisionRound]_vars

\* C9: from round 1 on the deck <<1, 2, 3>> with empty progress, marking card 1
\* OK, card 2 not-OK and card 3 OK, in whatever order they come, leads to round
\* 2 on the deck <<2>> with seen empty, incorrect {2} and mastered {1, 3}; until
\* the three are marked the round is 1 on the whole deck.
C9_ScenarioOutcome ==
  state.revisionMode =>
    IF state.revisionSeen = Range(ScenarioDeck) \/ state.revisionRound # 1
    THEN \/ /\ state.revisionRound = 1
            /\ Len(pending.swipeTimers) = 1
            /\ pending.swipeTimers[1].callback = "handleRoundComplete"
         \/ /\ state.revisionRound = 2
            /\ state.deck = <<2>>
            /\ state.revisionSeen = {}
            /\ state.revisionIncorrect = <<2>>
            /\ state.revisionMastered = {1, 3}
            /\ storage.fc_revision.round = 2
    ELSE state.deck = ScenarioDeck

\* Round 2 has begun and its card is displayed.
C9_Witness ==
  /\ state.revisionMode
  /\ state.revisionRound = 2
  /\ pending.swipeTimers = <<>>
  /\ pending.showTasks = <<>>
  /\ getCurrentCard(World) = 2

(***************************************************************************)
(* Properties of the transition lock and of the deck.                      *)
(***************************************************************************)
\* The deck and the session position the lock is said to protect.
Protected(st) == <<st.deck, st.currentIndex, st.history, st.historyIndex>>

\* The worlds the user-triggerable operations lead to from the current one.
UserOperations ==
  {nextCard(World, FALSE, rnd) : rnd \in Rnd}
    \cup {prevCard(World, FALSE), markCardOK(World), markCardPasOK(World)}
    \cup {toggleShuffle(World, rnd) : rnd \in Rnd}
    \cup {toggleFavouritesOnly(World, rnd) : rnd \in Rnd}
    \cup {cycleTimer(World, rnd) : rnd \in Rnd}
    \cup {cycleDifficulty(World, rnd) : rnd \in Rnd}
    \cup {toggleRevisionMode(World, rnd) : rnd \in Rnd}

\* C11: while isTransitioning is set, none of nextCard, prevCard,
\* toggleShuffle, toggleFavouritesOnly, cycleTimer, cycleDifficulty,
\* toggleRevisionMode, markCardOK and markCardPasOK changes the deck,
\* currentIndex, history or historyIndex.
C11_LockProtectsPosition ==
  state.isTransitioning =>
    \A t \in UserOperations : Protected(t.state) = Protected(state)

\* C12: in every reachable state, in lecture and in revision mode and in
\* every round, the deck is strictly ascending: sorted, and without
\* duplicates.
C12_DeckSortedUnique ==
  \A i, j \in 1..Len(state.deck) : i < j => state.deck[i] < state.deck[j]

\* C13: when the favourites view is active and the favourite flag of the
\* displayed card, the only favourite, is toggled, the card leaves the
\* favourites set and the deck becomes empty.
C13_LastFavouriteEmptiesDeck ==
  [][(/\ state.showFavouritesOnly
      /\ storage.fc_favourites[state.chapter] = {getCurrentCard(World)}
      /\ storage'.fc_favourites # storage.fc_favourites)
     => /\ storage'.fc_favourites[state.chapter] = {}
        /\ state'.deck = <<>>]_vars

(***************************************************************************)
(* Properties of rebuildDeck.                                              *)
(***************************************************************************)
\* The card n has the timer category tf in the manifest, by its per_card
\* entry or by the cards_by_timer list.
HasTimer(manifest, n, tf) ==
  /\ manifest.present
  /\ \/ manifest.hasPerCard /\ n \in DOMAIN manifest.per_card
          /\ manifest.per_card[n].timer = tf
     \/ manifest.hasByTimer /\ tf \in DOMAIN manifest.cards_by_timer
          /\ n \in manifest.cards_by_timer[tf]

\* The card n has the border category df in the manifest, by its per_card
\* entry or by the cards_by_border list.
HasBorder(manifest, n, df) ==
  /\ manifest.present
  /\ \/ manifest.hasPerCard /\ n \in DOMAIN manifest.per_card
          /\ manifest.per_card[n].border = df
     \/ manifest.hasByBorder /\ df \in DOMAIN manifest.cards_by_border
          /\ n \in manifest.cards_by_border[df]

\* C14: in lecture mode on a loaded chapter every card of the deck passes the
\* active filters: with filterTimer other than "all" it has that timer
\* category, with filterDifficulty other than "all" it has that border
\* category, whatever the shape of the manifest, the missing one included.
C14_DeckPassesFilters ==
  (Loaded /\ ~state.revisionMode) =>
    \A n \in Range(state.deck) :
      /\ state.filterTimer # "all" => HasTimer(state.manifest, n, state.filterTimer)
      /\ state.filterDifficulty # "all" =>
            HasBorder(state.manifest, n, state.filterDifficulty)

\* C15: the deck rebuildDeck produces holds no card tagged purple, by
\* per_card[n].border or by the cards_by_border.purple list, when one or both
\* of them are present.
C15_NoPurpleInDeck ==
  Loaded =>
    \A rnd \in Rnd :
      \A n \in Range(rebuildDeck(World, getCurrentCard(World), rnd).state.deck) :
        ~HasBorder(state.manifest, n, "purple")

\* C16: rebuildDeck called twice in a row, with the same manifest, total,
\* filters and favourites, leaves the same ordered deck both times.
C16_RebuildIdempotent ==
  \A rnd \in Rnd : \A keepCardNo \in 0..state.total :
    LET once == rebuildDeck(World, keepCardNo, rnd)
    IN rebuildDeck(once, keepCardNo, rnd).state.deck = once.state.deck

\* A filter and the favourites view are active on a manifest with categories,
\* and the deck they leave is a non-empty part of the chapter.
C16_Witness ==
  /\ Loaded
  /\ state.manifest.present
  /\ state.filterDifficulty # "all"
  /\ state.showFavouritesOnly
  /\ Len(state.deck) > 0 /\ Len(state.deck) < state.total
  /\ \A rnd \in Rnd : rebuildDeck(World, Null, rnd).state.deck = state.deck

(***************************************************************************)
(* Properties of sequential navigation.                                    *)
(***************************************************************************)
\* The world once the transitions pending in w have completed, oldest first.
RECURSIVE Settle(_, _)
Settle(w, rnd) ==
  IF w.ev.showTasks = <<>> THEN w
  ELSE Settle(finishTransition([w EXCEPT !.ev.showTasks = Tail(@)],
                               Head(w.ev.showTasks), rnd), rnd)

\* C17: in sequential mode, on a deck of at least one card and with no
\* transition in progress, nextCard moves to the following index, wrapping
\* from the last to 0, and prevCard called after that transition has settled
\* returns currentIndex to the value it had.
C17_NextThenPrevReturns ==
  (/\ Loaded /\ ~state.shuffle /\ ~state.isTransitioning
   /\ pending.showTasks = <<>> /\ Len(state.deck) >= 1)
  => \A rnd \in Rnd :
       LET advanced == Settle(nextCard(World, FALSE, rnd), rnd)
       IN /\ advanced.state.currentIndex = (state.currentIndex + 1) % Len(state.deck)
          /\ ~advanced.state.isTransitioning
          /\ prevCard(advanced, FALSE).state.currentIndex = state.currentIndex

\* The last card of a deck of several cards is displayed in sequential mode:
\* nextCard wraps to index 0 from here, and prevCard from there wraps back.
C17_Witness ==
  /\ Loaded /\ ~state.shuffle /\ ~state.isTransitioning
  /\ pending.showTasks = <<>>
  /\ Len(state.deck) > 1
  /\ state.currentIndex = Len(state.deck) - 1
  /\ storage.fc_last_card[state.chapter] = At(state.deck, state.currentIndex)

(***************************************************************************)
(* The asset resolver: loadImage, probeImage and loadCardImage.            *)
(***************************************************************************)
CacheHas(a, url) == \E e \in a.imageCache : e.url = url
CacheGet(a, url) == (CHOOSE e \in a.imageCache : e.url = url).src
CacheSet(a, url, src) ==
  [a EXCEPT !.imageCache =
     {e \in @ : e.url # url} \cup {[url |-> url, src |-> src]}]

\* Array.from(new Set(list.filter(Boolean))).
RECURSIVE UniqueOf(_)
UniqueOf(list) ==
  IF list = <<>> THEN <<>>
  ELSE LET rest == UniqueOf(SubSeq(list, 1, Len(list) - 1))
           x == list[Len(list)]
       IN IF x = "" \/ Includes(rest, x) THEN rest ELSE Append(rest, x)

\* deriveFormatsFromManifest gives formats.default the value of formats.front
\* when the manifest names no default.
getPreferredFormats(a) == UniqueOf(<<a.front, a.front>>)

buildImageURL(a, ext) == [ext |-> ext, v |-> a.version, cb |-> 0, probe |-> 0]

addCacheBustParam(url, now) == [url EXCEPT !.cb = now]

probeURL(url, now) == [url EXCEPT !.probe = now]

\* The synchronous part of loadImage without the in-flight lookup.
loadImageAlwaysFetching(a, url, useCache) ==
  IF useCache /\ CacheHas(a, url) THEN a
  ELSE [a EXCEPT !.images = Append(@, [url |-> url, useCache |-> useCache]),
                 !.loadingImages = @ \cup {url}]

\* The synchronous part of loadImage(url, useCache): a cached result or the
\* promise of a load in flight is handed back, otherwise an Image is created
\* and its promise is registered under the URL.
loadImage(a, url, useCache) ==
  IF useCache /\ CacheHas(a, url) THEN a
  ELSE IF url \in a.loadingImages THEN a
  ELSE [a EXCEPT !.images = Append(@, [url |-> url, useCache |-> useCache]),
                 !.loadingImages = @ \cup {url}]

\* `await loadImage(url, useCache)' in invocation i of loadCardImage: the
\* invocation now holds a promise, already resolved when the cache answered.
awaitLoadImage(a, i, url, useCache) ==
  [loadImage(a, url, useCache) EXCEPT
     !.calls[i].tried = Append(@, url),
     !.calls[i].waiting = IF useCache /\ CacheHas(a, url) THEN NoURL ELSE url,
     !.calls[i].got = IF useCache /\ CacheHas(a, url) THEN "ok" ELSE "none",
     !.calls[i].gotSrc =
        IF useCache /\ CacheHas(a, url) THEN CacheGet(a, url) ELSE NoURL,
     !.calls[i].outcomes =
        IF useCache /\ CacheHas(a, url) THEN Append(@, "ok") ELSE @]

\* probeImage(url) is loadImage(url + probe=<now>, false).
probeImage(a, i, url) == awaitLoadImage(a, i, probeURL(url, a.clock), FALSE)

\* The head of one turn of the for loop, for the candidate at calls[i].idx.
tryCandidate(a, i) ==
  IF a.calls[i].probe
  THEN probeImage(
         [a EXCEPT !.calls[i].lastTried =
             buildImageURL(a, a.calls[i].candidates[a.calls[i].idx])],
         i, buildImageURL(a, a.calls[i].candidates[a.calls[i].idx]))
  ELSE awaitLoadImage(
         [a EXCEPT !.calls[i].lastTried =
             buildImageURL(a, a.calls[i].candidates[a.calls[i].idx])],
         i, buildImageURL(a, a.calls[i].candidates[a.calls[i].idx]),
         a.calls[i].useCache)

\* The cache-busted second attempt of a turn, skipped.
retryBustedSkipped(a, i) ==
  [a EXCEPT !.calls[i].busted = TRUE, !.calls[i].got = "fail"]

\* The cache-busted second attempt of a turn.
retryBusted(a, i) ==
  awaitLoadImage(
    [a EXCEPT !.calls[i].lastTried =
        addCacheBustParam(
          buildImageURL(a, a.calls[i].candidates[a.calls[i].idx]), a.clock),
      !.calls[i].busted = TRUE, !.calls[i].got = "none"],
    i,
    addCacheBustParam(
      buildImageURL(a, a.calls[i].candidates[a.calls[i].idx]), a.clock),
    FALSE)

\* `if (result.ok)': the extension is memoised, a success of the cache-busted
\* attempt is stored under the plain URL, and the result is returned.
returnOk(a, i, url, src) ==
  [(IF a.calls[i].busted /\ a.calls[i].useCache /\ ~CacheHas(a, url)
      THEN CacheSet(a, url, src) ELSE a)
   EXCEPT !.imageFormatCache = a.calls[i].candidates[a.calls[i].idx],
          !.calls[i].done = TRUE,
          !.calls[i].result =
             [ok |-> TRUE, src |-> src,
              ext |-> a.calls[i].candidates[a.calls[i].idx]]]

\* The failure result without the URL tried last.
returnFailureNoSrc(a, i) ==
  [a EXCEPT !.calls[i].done = TRUE,
            !.calls[i].got = "none",
            !.calls[i].result = NoResult]

\* `return { ok: false, src: lastTried }' after the loop.
returnFailure(a, i) ==
  [a EXCEPT !.calls[i].done = TRUE,
            !.calls[i].got = "none",
            !.calls[i].result =
               [ok |-> FALSE, src |-> a.calls[i].lastTried, ext |-> ""]]

\* Invocation i goes on after the promise it awaited has resolved.
resumeLoadCardImage(a, i) ==
  IF a.calls[i].got = "ok"
  THEN returnOk(a, i, buildImageURL(a, a.calls[i].candidates[a.calls[i].idx]),
                IF a.calls[i].gotSrc = NoURL THEN a.calls[i].lastTried
                ELSE a.calls[i].gotSrc)
  ELSE IF ~a.calls[i].probe /\ ~a.calls[i].busted
  THEN retryBusted(a, i)
  ELSE IF a.calls[i].idx < Len(a.calls[i].candidates)
  THEN tryCandidate(
         [a EXCEPT !.calls[i].idx = @ + 1, !.calls[i].busted = FALSE,
                   !.calls[i].got = "none"], i)
  ELSE returnFailure(a, i)

\* loadCardImage('front', n, { probe, useCache }) up to its first await.
loadCardImage(a, probe, useCache) ==
  tryCandidate(
    [a EXCEPT !.calls = Append(@,
       [probe |-> probe, useCache |-> useCache, memo |-> a.imageFormatCache,
        candidates |->
          UniqueOf(<<a.imageFormatCache>> \o getPreferredFormats(a)
                     \o IMAGE_FORMATS),
        idx |-> 1, busted |-> FALSE, waiting |-> NoURL, got |-> "none",
        gotSrc |-> NoURL, lastTried |-> NoURL, tried |-> <<>>,
        outcomes |-> <<>>, done |-> FALSE, result |-> NoResult])],
    Len(a.calls) + 1)

\* img.onload / img.onerror of the Image at position k: the result is cached
\* when the call that created the Image asked for caching, the URL leaves
\* loadingImages and the promise resolves for every invocation awaiting it.
settleImage(a, k, ok) ==
  [(IF ok /\ a.images[k].useCache
      THEN CacheSet(a, a.images[k].url, a.images[k].url) ELSE a)
   EXCEPT !.images = RemoveAt(@, k),
          !.loadingImages = @ \ {a.images[k].url},
          !.succeeded = IF ok THEN @ \cup {a.images[k].url} ELSE @,
          !.succeededCaching =
             IF ok /\ a.images[k].useCache THEN @ \cup {a.images[k].url}
             ELSE @,
          !.calls = [j \in DOMAIN @ |->
             IF @[j].waiting = a.images[k].url /\ ~@[j].done
             THEN [@[j] EXCEPT !.waiting = NoURL,
                     !.got = IF ok THEN "ok" ELSE "fail",
                     !.gotSrc = IF ok THEN a.images[k].url ELSE NoURL,
                     !.outcomes = Append(@, IF ok THEN "ok" ELSE "fail")]
             ELSE @[j]]]

Frame == UNCHANGED <<state, storage, pending, server, persisted>>

LoadCardImage ==
  /\ Len(assets.calls) < MaxCalls
  /\ \E probe \in BOOLEAN, useCache \in BOOLEAN :
       assets' = loadCardImage(assets, probe, useCache)
  /\ Frame

SettleImage ==
  /\ \E k \in 1..Len(assets.images), ok \in BOOLEAN :
       assets' = settleImage(assets, k, ok)
  /\ Frame

ResumeLoadCardImage ==
  /\ \E i \in 1..Len(assets.calls) :
       /\ ~assets.calls[i].done
       /\ assets.calls[i].got # "none"
       /\ assets' = resumeLoadCardImage(assets, i)
  /\ Frame

\* A millisecond passes.
Tick ==
  /\ assets.clock < MaxClock
  /\ assets' = [assets EXCEPT !.clock = @ + 1]
  /\ Frame

InitResolver ==
  /\ state = InitState
  /\ storage = InitStorage
  /\ pending = InitPending
  /\ server = PerCardManifest(TotalCards)
  /\ \E front \in {"", "webp", "png"}, version \in {"", "v1"} :
       assets = InitAssets(front, version)
  /\ persisted = InitRestore

NextResolver ==
  \/ LoadCardImage
  \/ SettleImage
  \/ ResumeLoadCardImage
  \/ Tick

SpecResolver == InitResolver /\ [][NextResolver]_vars

\* The extension of the k-th attempt when the candidates are webp then png.
WebpThenPng == <<"webp", "webp", "png", "png">>

\* C18: a non-probe load of the card side whose manifest declares
\* formats.front = webp, started with no remembered extension, attempts in
\* order front<n>.webp (with ?v=<version> when a version is known), the same
\* URL with a cache-busting parameter added, then front<n>.png (and its
\* cache-busted form); no attempt follows a success, and the call returns
\* success exactly when its last attempt succeeded.
C18_AttemptOrder ==
  \A i \in 1..Len(assets.calls) :
    LET c == assets.calls[i]
    IN (~c.probe /\ c.memo = "" /\ assets.front = "webp") =>
         /\ Len(c.tried) <= 4
         /\ \A k \in 1..Len(c.tried) :
              /\ c.tried[k].ext = WebpThenPng[k]
              /\ c.tried[k].v = assets.version
              /\ c.tried[k].probe = 0
              /\ (k % 2 = 1 => c.tried[k].cb = 0)
              /\ (k % 2 = 0 => /\ c.tried[k].cb # 0
                               /\ [c.tried[k] EXCEPT !.cb = 0] = c.tried[k - 1])
         /\ \A k \in 1..Len(c.outcomes) :
              c.outcomes[k] = "ok" => k = Len(c.tried)
         /\ (c.done /\ c.result.ok) =>
              /\ c.outcomes[Len(c.tried)] = "ok"
              /\ c.result.ext = c.tried[Len(c.tried)].ext
         /\ (c.done /\ ~c.result.ok) =>
              /\ Len(c.tried) = 4
              /\ \A k \in 1..4 : c.outcomes[k] = "fail"

\* A versioned non-probe load that failed on front<n>.webp twice and
\* succeeded on front<n>.png.
C18_Witness ==
  \E i \in 1..Len(assets.calls) :
    /\ ~assets.calls[i].probe
    /\ assets.calls[i].memo = ""
    /\ assets.front = "webp"
    /\ assets.version = "v1"
    /\ assets.calls[i].done
    /\ assets.calls[i].result.ok
    /\ assets.calls[i].result.ext = "png"
    /\ Len(assets.calls[i].tried) = 3

\* The number of attempts invocation c made on the candidate ext.
AttemptsOn(c, ext) ==
  Cardinality({k \in 1..Len(c.tried) : c.tried[k].ext = ext})

CallsLoadImage(i) ==
  /\ i \in 1..Len(assets'.calls)
  /\ Len(assets'.calls[i].tried) =
       1 + (IF i <= Len(assets.calls) THEN Len(assets.calls[i].tried) ELSE 0)

\* The URL and the useCache argument of that call.
CalledURL(i) == assets'.calls[i].tried[Len(assets'.calls[i].tried)]
CalledWithCache(i) ==
  assets'.calls[i].useCache /\ CalledURL(i).cb = 0 /\ CalledURL(i).probe = 0

NoLoadStarted == assets'.images = assets.images

\* At most one image load is in flight per URL, and
\* loadingImages holds exactly the URLs in flight.
OneLoadPerURL ==
  /\ \A k1, k2 \in 1..Len(assets.images) :
       assets.images[k1].url = assets.images[k2].url => k1 = k2
  /\ assets.loadingImages =
       {assets.images[k].url : k \in 1..Len(assets.images)}

ManifestCall(basePath, forceReload, started, waiting, result) ==
  [basePath |-> basePath, forceReload |-> forceReload, started |-> started,
   waiting |-> waiting, result |-> result]

\* fetchManifest without the lookup in manifestFetches.
fetchManifestAlwaysFetching(a, basePath, forceReload) ==
  IF ~forceReload /\ a.manifestCache[basePath] # Null
  THEN [a EXCEPT !.manifestCalls = Append(@,
          ManifestCall(basePath, forceReload, FALSE, FALSE,
                       a.manifestCache[basePath]))]
  ELSE [a EXCEPT
          !.fetches = Append(@, [basePath |-> basePath,
                                 forceReload |-> forceReload]),
          !.manifestFetches = @ \cup {basePath},
          !.manifestCalls = Append(@,
             ManifestCall(basePath, forceReload, TRUE, TRUE, Null))]

\* fetchManifest(basePath, { forceReload }) up to the return of its promise.
fetchManifest(a, basePath, forceReload) ==
  IF ~forceReload /\ a.manifestCache[basePath] # Null
  THEN [a EXCEPT !.manifestCalls = Append(@,
          ManifestCall(basePath, forceReload, FALSE, FALSE,
                       a.manifestCache[basePath]))]
  ELSE IF basePath \in a.manifestFetches
  THEN [a EXCEPT !.manifestCalls = Append(@,
          ManifestCall(basePath, forceReload, FALSE, TRUE, Null))]
  ELSE [a EXCEPT
          !.fetches = Append(@, [basePath |-> basePath,
                                 forceReload |-> forceReload]),
          !.manifestFetches = @ \cup {basePath},
          !.manifestCalls = Append(@,
             ManifestCall(basePath, forceReload, TRUE, TRUE, Null))]

\* The last .then of the fetch at position k, with the document delivered.
settleFetch(a, k, data) ==
  [a EXCEPT
     !.fetches = RemoveAt(@, k),
     !.manifestFetches = @ \ {a.fetches[k].basePath},
     !.manifestCache[a.fetches[k].basePath] = IF data # Null THEN data ELSE @,
     !.fetched = IF data # Null THEN @ \cup {a.fetches[k].basePath} ELSE @,
     !.manifestCalls = [j \in DOMAIN @ |->
        IF @[j].waiting /\ @[j].basePath = a.fetches[k].basePath
        THEN [@[j] EXCEPT !.waiting = FALSE, !.result = data]
        ELSE @[j]]]

FetchManifest ==
  /\ Len(assets.manifestCalls) < MaxFetches
  /\ \E basePath \in BasePaths, forceReload \in BOOLEAN :
       assets' = fetchManifest(assets, basePath, forceReload)
  /\ Frame

SettleFetch ==
  /\ \E k \in 1..Len(assets.fetches), data \in ManifestData :
       assets' = settleFetch(assets, k, data)
  /\ Frame

NextManifestFetch ==
  \/ FetchManifest
  \/ SettleFetch

SpecManifestFetch == Init /\ [][NextManifestFetch]_vars

\* fetchManifest is called in this step; the call is the last of
\* manifestCalls afterwards.
CallsFetchManifest ==
  Len(assets'.manifestCalls) = Len(assets.manifestCalls) + 1
TheManifestCall == assets'.manifestCalls[Len(assets'.manifestCalls)]
NoFetchStarted == assets'.fetches = assets.fetches
FetchStarted ==
  assets'.fetches = Append(assets.fetches,
     [basePath |-> TheManifestCall.basePath,
      forceReload |-> TheManifestCall.forceReload])

OneFetchPerBasePath ==
  /\ \A k1, k2 \in 1..Len(assets.fetches) :
       assets.fetches[k1].basePath = assets.fetches[k2].basePath => k1 = k2
  /\ assets.manifestFetches =
       {assets.fetches[k].basePath : k \in 1..Len(assets.fetches)}

\* C21: for each base path at most one manifest fetch is in flight and a call
\* made meanwhile (forced or not, unless the memo answers it) shares it; once
\* a fetch has delivered a manifest, non-forced calls return the memoized
\* manifest and start no fetch; a call with forceReload ignores the memo and
\* starts a new fetch when none is in flight for the base path.
C21_ManifestSingleFlight ==
  [][/\ OneFetchPerBasePath'
     /\ CallsFetchManifest =>
          /\ (~TheManifestCall.forceReload
                /\ TheManifestCall.basePath \in assets.fetched) =>
               /\ NoFetchStarted
               /\ ~TheManifestCall.waiting
               /\ TheManifestCall.result =
                    assets.manifestCache[TheManifestCall.basePath]
               /\ TheManifestCall.result # Null
          /\ (TheManifestCall.basePath \in assets.manifestFetches
                /\ (TheManifestCall.forceReload
                      \/ TheManifestCall.basePath \notin assets.fetched)) =>
               (NoFetchStarted /\ TheManifestCall.waiting)
          /\ (TheManifestCall.basePath \notin assets.manifestFetches
                /\ (TheManifestCall.forceReload
                      \/ TheManifestCall.basePath \notin assets.fetched)) =>
               (FetchStarted /\ TheManifestCall.waiting)]_vars

\* A forced call has started a fetch for a base path whose manifest is
\* memoized, and a second call shares that fetch.
C21_Witness ==
  \E i, j \in 1..Len(assets.manifestCalls) :
    /\ i # j
    /\ assets.manifestCalls[i].forceReload
    /\ assets.manifestCalls[i].started
    /\ assets.manifestCalls[i].waiting
    /\ assets.manifestCache[assets.manifestCalls[i].basePath] # Null
    /\ assets.manifestCalls[j].basePath = assets.manifestCalls[i].basePath
    /\ assets.manifestCalls[j].waiting
    /\ ~assets.manifestCalls[j].started
    /\ Len(assets.fetches) = 1

\* C21 as stated: every call with forceReload starts a new fetch.
C21_ForcedCallStartsFetch ==
  [][(CallsFetchManifest /\ TheManifestCall.forceReload) => FetchStarted]_vars

(***************************************************************************)
(* The preloader: queuePreload and its startLoad closure.                  *)
(***************************************************************************)
\* queuePreload(cardNo) up to its return: the idle callback (or the 120 ms
\* timer) that will run startLoad is pending.
queuePreload(a, cardNo) ==
  IF cardNo = Null THEN a
  ELSE IF cardNo \in a.imagesLoaded THEN a
  ELSE IF cardNo \in a.preloading THEN a
  ELSE [a EXCEPT !.preloading = @ \cup {cardNo},
                 !.preloadTasks = Append(@,
                    [cardNo |-> cardNo, stage |-> "scheduled",
                     front |-> "pending", back |-> "pending"])]

\* The idle callback runs startLoad: both image loads are requested.
startLoad(a, k) == [a EXCEPT !.preloadTasks[k].stage = "loading"]

BothSettled(task) == task.front # "pending" /\ task.back # "pending"

\* A preload whose marker is released only when both loads succeeded.
settlePreloadThen(a, k, side, outcome) ==
  LET task == [a.preloadTasks[k] EXCEPT ![side] = outcome]
  IN IF BothSettled(task)
     THEN [a EXCEPT !.preloadTasks = RemoveAt(@, k),
                    !.preloading =
                       IF task.front = "ok" /\ task.back = "ok"
                       THEN @ \ {task.cardNo} ELSE @]
     ELSE [a EXCEPT !.preloadTasks[k] = task]

\* loadFrontImage or loadBackImage of task k resolves; once both have,
\* Promise.all settles and .finally deletes the card from state.preloading.
settlePreload(a, k, side, outcome) ==
  LET task == [a.preloadTasks[k] EXCEPT ![side] = outcome]
  IN IF BothSettled(task)
     THEN [a EXCEPT !.preloadTasks = RemoveAt(@, k),
                    !.preloading = @ \ {task.cardNo}]
     ELSE [a EXCEPT !.preloadTasks[k] = task]

\* showCurrent has displayed card n.
markImagesLoaded(a, n) == [a EXCEPT !.imagesLoaded = @ \cup {n}]

\* loadChapter: state.imagesLoaded.clear(); state.preloading.clear().
clearPreloading(a) == [a EXCEPT !.imagesLoaded = {}, !.preloading = {}]

QueuePreload(cardNo) ==
  /\ Len(assets.preloadTasks) < MaxTasks
  /\ assets' = queuePreload(assets, cardNo)
  /\ Frame

StartLoad(k) ==
  /\ k \in 1..Len(assets.preloadTasks)
  /\ assets.preloadTasks[k].stage = "scheduled"
  /\ assets' = startLoad(assets, k)
  /\ Frame

SettlePreload(k) ==
  /\ k \in 1..Len(assets.preloadTasks)
  /\ assets.preloadTasks[k].stage = "loading"
  /\ \E side \in {"front", "back"}, outcome \in {"ok", "fail"} :
       /\ assets.preloadTasks[k][side] = "pending"
       /\ assets' = settlePreload(assets, k, side, outcome)
  /\ Frame

MarkImagesLoaded ==
  /\ \E n \in 1..TotalCards : assets' = markImagesLoaded(assets, n)
  /\ Frame

ClearPreloading ==
  /\ assets' = clearPreloading(assets)
  /\ Frame

NextPreload ==
  \/ \E cardNo \in 0..TotalCards : QueuePreload(cardNo)
  \/ \E k \in 1..MaxTasks : StartLoad(k)
  \/ \E k \in 1..MaxTasks : SettlePreload(k)
  \/ MarkImagesLoaded
  \/ ClearPreloading

SpecPreload == Init /\ [][NextPreload]_vars

\* The idle callback of every scheduled task runs (requestIdleCallback is
\* given a timeout, the fallback is a timer) and every requested image load
\* fires onload or onerror.
SpecPreloadFair ==
  /\ SpecPreload
  /\ \A k \in 1..MaxTasks : WF_vars(StartLoad(k)) /\ WF_vars(SettlePreload(k))

\* C22: every card number that queuePreload has added to the preloading set
\* is eventually removed from it, whether its image loads succeed or fail.
C22_MarkerReleased ==
  \A n \in 1..TotalCards :
    (n \in assets.preloading) ~> (n \notin assets.preloading)

\* A queued card one of whose loads has failed while the other is pending.
C22_Witness ==
  \E k \in 1..Len(assets.preloadTasks) :
    /\ assets.preloadTasks[k].cardNo \in assets.preloading
    /\ assets.preloadTasks[k].stage = "loading"
    /\ assets.preloadTasks[k].front = "fail"
    /\ assets.preloadTasks[k].back = "pending"

\* C23: at no time are two preload tasks scheduled or running for the same
\* card number, also after a chapter change has cleared the preloading set.
C23_OneTaskPerCard ==
  \A k1, k2 \in 1..Len(assets.preloadTasks) :
    assets.preloadTasks[k1].cardNo = assets.preloadTasks[k2].cardNo => k1 = k2

(***************************************************************************)
(* Restoring persisted state.                                              *)
(***************************************************************************)
\* stored ? JSON.parse(stored) : fallback, outside any try block.
ParseUnguarded(raw) ==
  IF raw = "absent" THEN "nosaved"
  ELSE IF raw = "malformed" THEN "threw"
  ELSE "restored"

\* The same inside try { ... } catch { return fallback }.
ParseGuarded(raw) ==
  IF raw = "absent" THEN "nosaved"
  ELSE IF raw = "malformed" THEN "nosaved"
  ELSE "restored"

\* loadFavourites: new Set(JSON.parse(stored)), no try block.
loadFavouritesText(raw) == ParseUnguarded(raw)

\* loadHistory: JSON.parse inside try, [] otherwise.
loadHistoryText(raw) == ParseGuarded(raw)

\* loadRevisionProgress: JSON.parse inside try, null otherwise.
loadRevisionProgressText(raw) == ParseGuarded(raw)

\* state.shuffle: JSON.parse(localStorage.getItem('fc_shuffle') || 'false').
shuffleText(raw) == ParseUnguarded(raw)

\* state.revisionMode: JSON.parse(getItem('fc_revision_mode') || 'false').
revisionModeText(raw) == ParseUnguarded(raw)

\* getStoredCard: parseInt(raw, 10), null unless finite.
getStoredCardText(raw) ==
  IF raw = "valid" THEN "restored" ELSE "nosaved"

restoreItem(item, raw) ==
  CASE item = "favourites" -> loadFavouritesText(raw)
    [] item = "history" -> loadHistoryText(raw)
    [] item = "revision" -> loadRevisionProgressText(raw)
    [] item = "shuffle" -> shuffleText(raw)
    [] item = "revisionMode" -> revisionModeText(raw)
    [] item = "lastCard" -> getStoredCardText(raw)

\* The operation restoring one item runs.
Restore ==
  /\ \E item \in Items :
       /\ persisted.results[item] = "pending"
       /\ persisted' = [persisted EXCEPT
            !.results[item] = restoreItem(item, persisted.raw[item])]
  /\ UNCHANGED <<state, storage, pending, server, assets>>

InitRestoring ==
  /\ state = InitState
  /\ storage = InitStorage
  /\ pending = InitPending
  /\ server = PerCardManifest(TotalCards)
  /\ assets = InitAssets("webp", "")
  /\ \E raw \in [Items -> RawTexts] :
       persisted = [InitRestore EXCEPT !.raw = raw]

NextRestoring == Restore

SpecRestoring == InitRestoring /\ [][NextRestoring]_vars

\* C24: for each persisted item, an unparsable stored value is treated as no
\* saved state and the restoring operation completes normally.
C24_MalformedIsNoSavedState ==
  \A item \in Items :
    (persisted.raw[item] = "malformed" /\ persisted.results[item] # "pending") =>
      persisted.results[item] = "nosaved"

(***************************************************************************)
(* Navigation while localStorage.setItem throws.                           *)
(***************************************************************************)
\* saveHistory reaches localStorage.setItem.
saveHistoryWrites(w) == w.state.shuffle /\ w.state.chapter # Null

\* The draw of nextCard in shuffle mode at the end of history, up to the call
\* of saveHistory.
drawNextCard(w, w1, rnd) ==
  ensureShuffleQueue(
    pushHistory(
      IF Len(w1.state.shuffleQueue) > 0
      THEN [w1 EXCEPT !.state.shuffleQueue = SubSeq(@, 1, Len(@) - 1)]
      ELSE w1,
      IF Len(w1.state.shuffleQueue) > 0
      THEN w1.state.shuffleQueue[Len(w1.state.shuffleQueue)]
      ELSE At(w.state.deck, 0)),
    IF Len(w1.state.shuffleQueue) > 0
    THEN w1.state.shuffleQueue[Len(w1.state.shuffleQueue)]
    ELSE At(w.state.deck, 0),
    rnd)

\* saveHistory(); showCurrent(...) when setItem throws: the exception leaves
\* nextCard before showCurrent is called.
saveThenShowThrowing(w) ==
  IF saveHistoryWrites(w) THEN w ELSE showCurrent(w)

\* nextCard while localStorage.setItem throws.
nextCardWriteFailing(w, queued, rnd) ==
  IF Len(w.state.deck) = 0 THEN w
  ELSE IF w.state.isTransitioning THEN deferNavAction(w, queued, "next")
  ELSE IF w.state.shuffle
  THEN IF w.state.historyIndex < Len(w.state.history) - 1
       THEN saveThenShowThrowing([w EXCEPT !.state.historyIndex = @ + 1])
       ELSE saveThenShowThrowing(
              drawNextCard(w, ensureShuffleQueue(w, getCurrentCard(w), rnd),
                           rnd))
  ELSE showCurrent(
         [w EXCEPT !.state.currentIndex = (@ + 1) % Len(w.state.deck)])

StorageStartsFailing ==
  /\ Loaded
  /\ ~persisted.writeFails
  /\ persisted' = [persisted EXCEPT !.writeFails = TRUE]
  /\ UNCHANGED <<state, storage, pending, server, assets>>

NextCardWriteFailing ==
  /\ Loaded
  /\ persisted.writeFails
  /\ ~state.revisionMode
  /\ \E rnd \in Rnd : Apply(nextCardWriteFailing(World, FALSE, rnd))

NextWriteFailing ==
  \/ ~persisted.writeFails /\ InitialLoad
  \/ ~persisted.writeFails /\ LoadChapterResume
  \/ ~persisted.writeFails /\ ShowCurrentFinish
  \/ ~persisted.writeFails /\ Loaded /\ ToggleShuffle
  \/ ~persisted.writeFails /\ Loaded /\ NextCard
  \/ ~persisted.writeFails /\ Loaded /\ PrevCard
  \/ StorageStartsFailing
  \/ NextCardWriteFailing

SpecWriteFailing == Init /\ [][NextWriteFailing]_vars

\* C25: while writes to the persistent store fail, a navigation that changes
\* the session position in memory still makes its display update.
C25_WriteFailureKeepsDisplay ==
  [][(persisted.writeFails /\ persisted'.writeFails
        /\ <<state'.history, state'.historyIndex, state'.currentIndex>> #
             <<state.history, state.historyIndex, state.currentIndex>>) =>
       /\ state'.isTransitioning
       /\ Len(pending'.showTasks) = Len(pending.showTasks) + 1]_vars

\* C26: toggleShuffle keeps the current card whenever that card is a member
\* of the deck: switching in leaves a history that ends at the current card
\* with the pointer on it, switching out leaves the index at the card's deck
\* position and clears the chapter's persisted history.
C26_ToggleShuffleKeepsCard ==
  (Loaded /\ getCurrentCard(World) # Null
     /\ Includes(state.deck, getCurrentCard(World))) =>
    \A rnd \in Rnd :
      LET t == toggleShuffle(World, rnd)
      IN /\ getCurrentCard(t) = getCurrentCard(World)
         /\ (t.state.shuffle /\ ~state.shuffle) =>
              /\ t.state.historyIndex = Len(t.state.history) - 1
              /\ At(t.state.history, t.state.historyIndex) =
                   getCurrentCard(World)
         /\ (~t.state.shuffle /\ state.shuffle) =>
              /\ t.state.currentIndex =
                   IndexOf(state.deck, getCurrentCard(World))
              /\ t.ls.fc_history = <<>>

\* Shuffle mode with a persisted history, the current card not first in the
\* deck, and a toggle that switches shuffle off.
C26_Witness ==
  /\ Loaded
  /\ state.shuffle
  /\ getCurrentCard(World) # Null
  /\ IndexOf(state.deck, getCurrentCard(World)) > 0
  /\ storage.fc_history # <<>>
  /\ \A rnd \in Rnd : ~toggleShuffle(World, rnd).state.shuffle

(***************************************************************************)
(* Sessions that enter and leave revision mode from any lecture            *)
(* configuration: either order, favourites view on or off, stored          *)
(* progress of any round.                                                  *)
(***************************************************************************)
NextEntry ==
  \/ InitialLoad
  \/ LoadChapterResume
  \/ ShowCurrentFinish
  \/ SwipeTimeout
  \/ Settled /\ ToggleRevisionMode
  \/ Settled /\ MarkCardOK
  \/ Settled /\ MarkCardPasOK
  \/ Settled /\ ToggleShuffle
  \/ Settled /\ ToggleFavouritesOnly
  \/ Settled /\ Bookmark
  \/ Settled /\ NextCard

SpecEntry == Init /\ [][NextEntry]_vars

\* C27: right after toggleRevisionMode has turned revision on with a
\* non-empty resulting deck, the deck is exactly the incorrect set when the
\* restored round is above 1 and that set is non-empty; shuffle is on and
\* persisted as on; favourites-only is off; history has exactly one entry
\* with pointer 0; the entry is the previously displayed card when it belongs
\* to the resulting deck and a member of the deck otherwise; unvisited is the
\* deck minus that entry.
C27_RevisionEntry ==
  (Loaded /\ ~state.revisionMode) =>
    \A rnd \in Rnd :
      LET t == toggleRevisionMode(World, rnd)
      IN Len(t.state.deck) > 0 =>
           /\ (storage.fc_revision.present /\ storage.fc_revision.round > 1
                 /\ Len(storage.fc_revision.incorrect) > 0) =>
                Range(t.state.deck) = Range(storage.fc_revision.incorrect)
           /\ t.state.revisionMode
           /\ t.state.shuffle
           /\ t.ls.fc_shuffle
           /\ ~t.state.showFavouritesOnly
           /\ Len(t.state.history) = 1
           /\ t.state.historyIndex = 0
           /\ Includes(t.state.deck, t.state.history[1])
           /\ Includes(t.state.deck, getCurrentCard(World)) =>
                t.state.history[1] = getCurrentCard(World)
           /\ t.state.unvisited = Range(t.state.deck) \ {t.state.history[1]}

\* Lecture mode in sequential order with a stored revision progress of round
\* 2 or more whose incorrect set is a proper part of the deck and does not
\* hold the displayed card.
C27_Witness ==
  /\ Loaded
  /\ ~state.revisionMode
  /\ ~state.shuffle
  /\ storage.fc_revision.present
  /\ storage.fc_revision.round > 1
  /\ Len(storage.fc_revision.incorrect) > 0
  /\ Range(storage.fc_revision.incorrect) # Range(state.deck)
  /\ getCurrentCard(World) # Null
  /\ ~Includes(storage.fc_revision.incorrect, getCurrentCard(World))

\* C28: for as long as revision mode is off after toggleRevisionMode has
\* turned it off, the deck is the one rebuildDeck derives from the manifest
\* and the active filters, not narrowed to the incorrect set, also when the
\* deferred callback of a mark was pending at the exit.
C28_NoNarrowingOutsideRevision ==
  (Loaded /\ ~state.revisionMode) =>
    \A rnd \in Rnd :
      rebuildDeck(World, getCurrentCard(World), rnd).state.deck = state.deck

\* What a replay step must leave alone.
ReplayFrame(st) == <<st.history, st.unvisited, st.shuffleQueue, st.deck>>

\* C29: in shuffle mode, prevCard with the pointer above 0 and nextCard with
\* the pointer before the end of history move historyIndex by exactly one
\* step and leave history, unvisited, the shuffle queue and the deck
\* unchanged, whatever the random generator would deliver.
C29_ReplayMovesPointerOnly ==
  (Loaded /\ state.shuffle /\ ~state.isTransitioning) =>
    /\ state.historyIndex > 0 =>
         /\ prevCard(World, FALSE).state.historyIndex = state.historyIndex - 1
         /\ ReplayFrame(prevCard(World, FALSE).state) = ReplayFrame(state)
    /\ state.historyIndex < Len(state.history) - 1 =>
         \A rnd \in Rnd :
           /\ nextCard(World, FALSE, rnd).state.historyIndex =
                state.historyIndex + 1
           /\ ReplayFrame(nextCard(World, FALSE, rnd).state) =
                ReplayFrame(state)

\* Shuffle mode at rest with the pointer strictly inside the history.
C29_Witness ==
  /\ Loaded
  /\ state.shuffle
  /\ ~state.isTransitioning
  /\ state.historyIndex > 0
  /\ state.historyIndex < Len(state.history) - 1
  /\ prevCard(World, FALSE).state.historyIndex = state.historyIndex - 1

(***************************************************************************)
(* Lecture sessions over several chapters: the user picks chapters in the  *)
(* selector, moves through the cards, bookmarks them, switches the         *)
(* favourites view and cycles the difficulty filter.                       *)
(***************************************************************************)
\* The change event of the chapter selector: loadChapter(val).
SelectChapter ==
  /\ ~pending.loading
  /\ \E n \in Chapters : Apply(loadChapterBegin(World, n))

NextChapters ==
  \/ SelectChapter
  \/ LoadChapterResume
  \/ ShowCurrentFinish
  \/ Loaded /\ NextCard
  \/ Loaded /\ Bookmark
  \/ Loaded /\ ToggleFavouritesOnly
  \/ Loaded /\ CycleDifficulty

SpecChapters == Init /\ [][NextChapters]_vars

\* C30: the favourites set of a chapter changes only through toggleFavourite
\* while that chapter is the current one: every other operation leaves every
\* chapter's favourites unchanged; toggleFavourite(c) changes the membership
\* of c in the current chapter's set and nothing else, and applying it twice
\* restores the original sets.
C30_FavouritesChangeOnlyByToggle ==
  [][/\ \A t \in UserOperations : t.ls.fc_favourites = storage.fc_favourites
     /\ \A c \in 1..TotalCards :
          LET t == toggleFavourite(World, c)
          IN /\ \A chapter \in ChapterKeys \ {state.chapter} :
                  t.ls.fc_favourites[chapter] = storage.fc_favourites[chapter]
             /\ t.ls.fc_favourites[state.chapter] \ {c} =
                  storage.fc_favourites[state.chapter] \ {c}
             /\ (c \in t.ls.fc_favourites[state.chapter]) <=>
                  (c \notin storage.fc_favourites[state.chapter])
             /\ toggleFavourite(t, c).ls.fc_favourites = storage.fc_favourites
     /\ storage'.fc_favourites # storage.fc_favourites =>
          \E c \in 1..TotalCards :
            /\ storage' = toggleFavourite(World, c).ls
            /\ state' = state
            /\ pending' = pending]_vars

\* Two chapters have been visited and hold different, non-empty favourites.
C30_Witness ==
  /\ Loaded
  /\ \E c1, c2 \in Chapters :
       /\ c1 # c2
       /\ state.chapter = c2
       /\ storage.fc_favourites[c1] # {}
       /\ storage.fc_favourites[c2] # {}
       /\ storage.fc_favourites[c1] # storage.fc_favourites[c2]


(***************************************************************************)
(* The persisted history against the history in memory.                    *)
(***************************************************************************)
\* C31: in shuffle mode, after every operation on a loaded chapter that
\* changes the contents of the in-memory history (a nextCard draw,
\* nextRevisionCard, rebuildDeck on a filter change, toggleShuffle, the
\* revision reseed), the persisted history of the chapter equals the last
\* MAX_HISTORY entries of the in-memory history.
C31_PersistedHistoryFollows ==
  [][(/\ state.chapter # Null /\ state'.chapter = state.chapter
      /\ ~pending.loading /\ ~pending'.loading
      /\ state'.shuffle
      /\ state'.history # state.history) =>
       storage'.fc_history = SliceLast(state'.history, MAX_HISTORY)]_vars

(***************************************************************************)
(* The decks of successive revision rounds.                                *)
(***************************************************************************)
\* A step of a loaded chapter in which startNewRevisionRound begins a round:
\* the round counter goes up by one while the mode stays as it is.
NewRoundBegins ==
  /\ state.chapter # Null /\ state'.chapter = state.chapter
  /\ ~pending.loading /\ ~pending'.loading
  /\ state'.revisionMode = state.revisionMode
  /\ state'.revisionRound = state.revisionRound + 1

\* C32: whenever a new revision round begins, its deck is exactly the
\* incorrect set (the cards whose latest mark is not-OK), and every card of
\* the new deck belonged to the deck of the round before.
C32_RoundDeckNarrows ==
  [][NewRoundBegins =>
       /\ Range(state'.deck) = Range(state'.revisionIncorrect)
       /\ Range(state'.deck) \subseteq Range(state.deck)]_vars

(***************************************************************************)
(* The navigation queue at rest.                                           *)
(***************************************************************************)
\* Nothing is left to run: no transition, no showCurrent continuation, no
\* swipe timer or gesture continuation, no chapter load.
AtRest ==
  /\ ~state.isTransitioning
  /\ pending.showTasks = <<>>
  /\ pending.swipeTimers = <<>>
  /\ pending.gestureTasks = <<>>
  /\ ~pending.loading

\* C33: every navigation request enqueued during a transition is consumed:
\* once the transitions have completed and nothing is left to run without
\* further input, the navigation queue is empty.
C33_QueueDrained == AtRest => state.navQueue = <<>>

(***************************************************************************)
(* Termination of a revision round under a user who keeps marking.         *)
(***************************************************************************)
\* The world after the key or button mark `mark` of the displayed card.
MarkBy(w, mark) == IF mark = "ok" THEN markCardOK(w) ELSE markCardPasOK(w)

\* The mark has scheduled handleRoundComplete, or the nextRevisionCard it
\* has scheduled will find no unseen card and call it.
ReachesRoundComplete(w) ==
  /\ w.ev.swipeTimers # <<>>
  /\ \/ Head(w.ev.swipeTimers).callback = "handleRoundComplete"
     \/ Len(FilterOut(w.state.deck, w.state.revisionSeen)) = 0

\* The world once the swipe timer of the mark has fired and the transition
\* it starts has finished.
AfterMark(w, rnd) ==
  Settle(swipeTimeout([w EXCEPT !.ev.swipeTimers = Tail(@)],
                      Head(w.ev.swipeTimers).callback, rnd), rnd)

RECURSIVE CompletesWithin(_, _)
\* Whatever marks the user gives and whatever cards are drawn, round
\* completion is reached with at most `marks` marks from w on.
CompletesWithin(w, marks) ==
  /\ marks > 0
  /\ \A mark \in {"ok", "pasOk"} :
       /\ MarkBy(w, mark).ev.swipeTimers # <<>>
       /\ \/ ReachesRoundComplete(MarkBy(w, mark))
          \/ \A rnd \in Rnd : CompletesWithin(AfterMark(MarkBy(w, mark), rnd), marks - 1)

\* C34: in revision mode with a non-empty deck of n cards, a user who keeps
\* marking the displayed card, each mark given after the previous transition
\* has finished, reaches round-completion handling after at most n + 1 marks.
C34_RoundTerminates ==
  (Settled /\ state.revisionMode /\ Len(state.deck) > 0) =>
    CompletesWithin(World, Len(state.deck) + 1)

\* A round on the three cards with no card seen yet: fewer than three marks
\* do not complete it.
C34_Witness ==
  /\ Settled
  /\ state.revisionMode
  /\ Len(state.deck) = 3
  /\ state.revisionSeen = {}
  /\ CompletesWithin(World, 3)
  /\ ~CompletesWithin(World, 2)

(***************************************************************************)
(* The card on screen against the session position.                        *)
(***************************************************************************)
\* The card whose images are on screen: showCurrent's continuation puts the
\* images of its card n into #frontImg / #backImg and its finishTransition
\* records that n with storeCurrentCard(n).
DisplayedCard == storage.fc_last_card[state.chapter]

\* C35: once no transition is in progress and the navigation queue is empty,
\* the card whose images are displayed is the card getCurrentCard() returns,
\* after any interleaving of navigation, filter cycling and the shuffle and
\* revision toggles with in-progress transitions.
C35_DisplayedIsCurrent ==
  (AtRest /\ state.chapter # Null /\ state.navQueue = <<>>
     /\ getCurrentCard(World) # Null) =>
    DisplayedCard = getCurrentCard(World)

\* C36: in every reachable state with a non-empty deck and no chapter load
\* in progress, getCurrentCard() returns a card that is a member of the
\* current deck, in sequential mode and in shuffle mode, at every position
\* of the history pointer.
C36_CurrentCardInDeck ==
  (Len(state.deck) > 0 /\ ~pending.loading) =>
    /\ getCurrentCard(World) # Null
    /\ Includes(state.deck, getCurrentCard(World))

\* C37: in lecture shuffle mode with a deck of at least 2 cards, a nextCard
\* that draws a new card at the end of the history never draws the card that
\* is current before the draw, also after a chapter load that has restored
\* the persisted history.
C37_DrawIsAnotherCard ==
  [][(IsShuffleDraw /\ Len(state.deck) >= 2) =>
       LastOf(state'.history) # getCurrentCard(World)]_vars

(***************************************************************************)
(* Sessions over page reloads: the user switches the modes and the         *)
(* favourites view and restarts the revision at any time, transitions in   *)
(* progress or not, marks cards not-OK, and reloads the page, which builds *)
(* `state` anew from localStorage.                                         *)
(***************************************************************************)
\* The `state` literal evaluated on page load: shuffle and revisionMode are
\* read from fc_shuffle and fc_revision_mode, the callbacks of the page
\* before are gone.
reload(w) ==
  [state |-> [InitState EXCEPT !.shuffle = w.ls.fc_shuffle,
                               !.revisionMode = w.ls.fc_revision_mode],
   ls |-> w.ls,
   ev |-> InitPending]

\* The user reloads the page.
Reload ==
  /\ state.chapter # Null
  /\ Apply(reload(World))

NextModes ==
  \/ InitialLoad
  \/ LoadChapterResume
  \/ ShowCurrentFinish
  \/ SwipeTimeout
  \/ Reload
  \/ Loaded /\ ToggleRevisionMode
  \/ Loaded /\ ToggleShuffle
  \/ Loaded /\ ToggleFavouritesOnly
  \/ Loaded /\ Bookmark
  \/ Settled /\ MarkCardPasOK
  \/ Loaded /\ RestartInline

SpecModes == Init /\ [][NextModes]_vars

\* C38: in every reachable state where revision mode is active, shuffle mode
\* is on and the favourites-only filter is off.
C38_RevisionImpliesShuffle ==
  state.revisionMode => (state.shuffle /\ ~state.showFavouritesOnly)

\* Revision mode restored by a page reload of a session that has used the
\* favourites view: the chapter is loading with the mode read from
\* fc_revision_mode.
C38_Witness ==
  /\ state.revisionMode
  /\ pending.loading
  /\ state.shuffle
  /\ storage.fc_revision_mode
  /\ storage.fc_favourites[state.chapter] # {}
  /\ storage.fc_revision.present

(***************************************************************************)
(* Chapter loads that overlap: the selector starts loadChapter while       *)
(* earlier calls still await their manifest.  pending.loads holds, for     *)
(* each call in flight, the chapter whose base path it passed to           *)
(* fetchManifest.                                                          *)
(***************************************************************************)
\* What the server holds under flashcards/ch<n>_cartes/manifest.json: the
\* first chapter has the cards of `server`, the others one card less.
ChapterManifest(n) == IF n = 1 THEN server ELSE PerCardManifest(TotalCards - 1)

\* loadChapter(n) up to its await of loadManifest().
loadChapterCall(w, n) ==
  [loadChapterBegin(w, n) EXCEPT !.ev.loads = Append(@, n)]

\* The fetch of the i-th call in flight resolves and the call runs to its
\* end on the state as it is then.
loadChapterAfterManifest(w, i, rnd) ==
  [loadChapterResume([w EXCEPT !.ev.loads = RemoveAt(@, i)],
                     ChapterManifest(w.ev.loads[i]), rnd)
     EXCEPT !.ev.loading = RemoveAt(w.ev.loads, i) # <<>>]

\* The change event of the chapter selector, at any time.
LoadChapter ==
  /\ Len(pending.loads) < MaxLoads
  /\ \E n \in Chapters : Apply(loadChapterCall(World, n))

\* A manifest fetch resolves; calls for the same base path share one fetch
\* and resume in the order they were made.
ManifestArrives ==
  \E i \in 1..Len(pending.loads), rnd \in Rnd :
    /\ \A j \in 1..(i - 1) : pending.loads[j] # pending.loads[i]
    /\ Apply(loadChapterAfterManifest(World, i, rnd))

NextLoads ==
  \/ LoadChapter
  \/ ManifestArrives
  \/ ShowCurrentFinish
  \/ Loaded /\ NextCard
  \/ Loaded /\ Bookmark

SpecLoads == Init /\ [][NextLoads]_vars

\* C39: when loadChapter(b) is started while an earlier loadChapter(a) still
\* awaits its manifest, then once both have settled the chapter, manifest,
\* total, deck and session position all belong to chapter b, the chapter
\* selected last, in whatever order the fetches resolve.
C39_LastSelectedChapterWins ==
  (state.chapter # Null /\ pending.loads = <<>>) =>
    /\ state.manifest = ChapterManifest(state.chapter)
    /\ state.total = applyManifestTotal(ChapterManifest(state.chapter))
    /\ state.deck = BuildDeck(ChapterManifest(state.chapter), state.total,
                              state.filterTimer, state.filterDifficulty,
                              state.showFavouritesOnly, loadFavourites(World))
    /\ Includes(state.deck, getCurrentCard(World))

(***************************************************************************)
(* The favourites view switched on and off again.                          *)
(***************************************************************************)
\* The favourites view switched on from w, its transition finished.
FavouritesOn(w, rnd) == Settle(toggleFavouritesOnly(w, rnd), rnd)

\* The favourites view switched on and, once at rest, off again.
FavouritesOnOff(w, r1, r2) == toggleFavouritesOnly(FavouritesOn(w, r1), r2)

\* C40: turning favourites-only on and then off again, each toggle made with
\* no transition in progress and nothing in between, restores the shuffle
\* flag that was in effect before and makes the card that was current
\* before current again whenever it is in the rebuilt deck.
C40_FavouritesRoundTrip ==
  (Settled /\ ~state.revisionMode /\ ~state.showFavouritesOnly
     /\ state.navQueue = <<>>) =>
    \A r1, r2 \in Rnd :
      /\ FavouritesOn(World, r1).state.showFavouritesOnly
      /\ ~FavouritesOn(World, r1).state.isTransitioning
      /\ ~FavouritesOnOff(World, r1, r2).state.showFavouritesOnly
      /\ FavouritesOnOff(World, r1, r2).state.shuffle = state.shuffle
      /\ Includes(FavouritesOnOff(World, r1, r2).state.deck, getCurrentCard(World)) =>
           getCurrentCard(FavouritesOnOff(World, r1, r2)) = getCurrentCard(World)

\* Shuffle mode at rest with a history of several entries, the current card
\* not bookmarked and another card bookmarked: the favourites view shows
\* another card and switches shuffle off.
C40_Witness ==
  /\ Settled
  /\ ~state.revisionMode
  /\ ~state.showFavouritesOnly
  /\ state.navQueue = <<>>
  /\ state.shuffle
  /\ Len(state.history) >= 2
  /\ getCurrentCard(World) # Null
  /\ getCurrentCard(World) \notin loadFavourites(World)
  /\ loadFavourites(World) # {}
  /\ \A r1 \in Rnd :
       /\ ~FavouritesOn(World, r1).state.shuffle
       /\ getCurrentCard(FavouritesOn(World, r1)) # getCurrentCard(World)

====
